---- MODULE Spec2Model ----
(***************************************************************************)
(* Model of the release catalog, filtering and download-wizard logic of    *)
(* the Pulse website:                                                      *)
(*   src/src/pages/Releases.tsx                  (releases browser)        *)
(*   src/unnamed/part_000                        (dev-builds browser)      *)
(*   src/src/components/LandingPage/DownloadModal.tsx  (download wizard)   *)
(*                                                                         *)
(* JavaScript strings are modelled as sequences of one-character strings,  *)
(* so that split('.'), parseInt(_, 10) and toLowerCase() are computed and  *)
(* not assumed.                                                            *)
(***************************************************************************)
EXTENDS Integers, Sequences, FiniteSets, Bags, TLC

VARIABLES
    \* --- comparator harness (compareVersions applied to drawn inputs)
    cmpA, cmpB, cmpOut,
    \* --- catalog browser page (Releases / DevBuilds component state)
    page, routeVersion, routeBuild, effectsPending,
    releases, loading, error, selectedVersion, selectedPlatform,
    inflight, platform0, calls, lastFetch, overtaken, lastSettled,
    \* --- download wizard (DownloadModal component state)
    isOpen, step, wSelectedVersion, wSelectedPlatform, wReleases,
    isLoading, wError, isDownloading, resetTimer, animTimer, wInflight, wLast,
    \* --- wizard view harness (the values DownloadModal derives while rendering)
    vCat, vVersion, vPlatform, vOut,
    \* --- Hero's background-effects preference
    heroPhase, showEffects, storedEffects, lastToggle, toggleLog,
    serverStats, heroIsLoading, opacity, statsPhase,
    \* --- releases browser: the expanded changelogs and the clicks made on them
    expandedReleases, changelogClicks

cmpVars == <<cmpA, cmpB, cmpOut>>
pageVars == <<page, routeVersion, routeBuild, effectsPending, releases, loading,
              error, selectedVersion, selectedPlatform, inflight, platform0,
              calls, lastFetch, overtaken, lastSettled>>
wizVars == <<isOpen, step, wSelectedVersion, wSelectedPlatform, wReleases,
             isLoading, wError, isDownloading, resetTimer, animTimer, wInflight,
             wLast>>
viewVars == <<vCat, vVersion, vPlatform, vOut>>
prefVars == <<heroPhase, showEffects, storedEffects, lastToggle, toggleLog>>
statsVars == <<serverStats, heroIsLoading, opacity, statsPhase>>
heroVars == <<prefVars, statsVars>>
logVars == <<expandedReleases, changelogClicks>>
vars == <<cmpVars, pageVars, wizVars, viewVars, heroVars, logVars>>

----------------------------------------------------------------------------
(* Strings *)

Digits == {"0", "1", "2", "3", "4", "5", "6", "7", "8", "9"}

DigitVal(ch) ==
    CASE ch = "0" -> 0 [] ch = "1" -> 1 [] ch = "2" -> 2 [] ch = "3" -> 3
      [] ch = "4" -> 4 [] ch = "5" -> 5 [] ch = "6" -> 6 [] ch = "7" -> 7
      [] ch = "8" -> 8 [] ch = "9" -> 9

WhiteSpace == {" "}

Max(x, y) == IF x >= y THEN x ELSE y

\* The empty string ''.
Empty == <<>>

UpperCase ==
    <<"A", "B", "C", "D", "E", "F", "G", "H", "I", "J", "K", "L", "M", "N", "O",
      "P", "Q", "R", "S", "T", "U", "V", "W", "X", "Y", "Z">>

LowerCase ==
    <<"a", "b", "c", "d", "e", "f", "g", "h", "i", "j", "k", "l", "m", "n", "o",
      "p", "q", "r", "s", "t", "u", "v", "w", "x", "y", "z">>

lowerChar(ch) ==
    IF \E i \in 1..Len(UpperCase) : UpperCase[i] = ch
    THEN LowerCase[CHOOSE i \in 1..Len(UpperCase) : UpperCase[i] = ch]
    ELSE ch

\* String.prototype.toLowerCase()
toLowerCase(str) == [i \in 1..Len(str) |-> lowerChar(str[i])]

\* String.prototype.split('.'): the pieces between the dots; '' gives [''].
RECURSIVE split(_)
split(s) ==
    IF \A i \in 1..Len(s) : s[i] # "."
    THEN <<s>>
    ELSE LET d == CHOOSE i \in 1..Len(s) :
                      s[i] = "." /\ \A j \in 1..(i - 1) : s[j] # "."
         IN  <<SubSeq(s, 1, d - 1)>> \o split(SubSeq(s, d + 1, Len(s)))

\* The value of a run of decimal digits, most significant first.
RECURSIVE digitsValue(_)
digitsValue(ds) ==
    IF ds = <<>> THEN 0
    ELSE 10 * digitsValue(SubSeq(ds, 1, Len(ds) - 1)) + DigitVal(ds[Len(ds)])

\* The longest prefix of s made of decimal digits.
RECURSIVE digitPrefix(_)
digitPrefix(s) ==
    IF s = <<>> \/ s[1] \notin Digits THEN <<>>
    ELSE <<s[1]>> \o digitPrefix(Tail(s))

RECURSIVE trimStart(_)
trimStart(s) ==
    IF s # <<>> /\ s[1] \in WhiteSpace THEN trimStart(Tail(s)) ELSE s

\* parseInt(p, 10): leading white space is skipped, then an optional sign, then
\* the longest run of digits; no digit at all gives NaN.
parseInt(p) ==
    LET t == trimStart(p)
        neg == t # <<>> /\ t[1] = "-"
        body == IF t # <<>> /\ t[1] \in {"-", "+"} THEN Tail(t) ELSE t
        ds == digitPrefix(body)
    IN  IF ds = <<>> THEN [nan |-> TRUE, val |-> 0]
        ELSE [nan |-> FALSE,
              val |-> IF neg THEN 0 - digitsValue(ds) ELSE digitsValue(ds)]

\* `x || 0` on the result of parseInt: NaN and 0 are falsy.
OrZero(x) == IF x.nan \/ x.val = 0 THEN 0 ELSE x.val

DigitChar(d) == CHOOSE ch \in Digits : DigitVal(ch) = d

\* String(n) of an integer, as a template literal or string concatenation
\* converts it.
RECURSIVE numberToString(_)
numberToString(n) ==
    IF n < 0 THEN <<"-">> \o numberToString(0 - n)
    ELSE IF n < 10 THEN <<DigitChar(n)>>
    ELSE numberToString(n \div 10) \o <<DigitChar(n % 10)>>

\* v.split('.').map((p) => parseInt(p, 10) || 0)
parts(v) == [i \in 1..Len(split(v)) |-> OrZero(parseInt(split(v)[i]))]

\* `parts[i] || 0`: an index past the end reads undefined.
partAt(ps, i) == IF i <= Len(ps) THEN ps[i] ELSE 0

----------------------------------------------------------------------------
(* compareVersions, Releases.tsx *)

\* The loop returning the difference of the segments instead of its sign.
RECURSIVE compareLoopDiff(_, _, _, _)
compareLoopDiff(parts1, parts2, i, maxLength) ==
    IF i > maxLength THEN 0
    ELSE LET num1 == partAt(parts1, i)
             num2 == partAt(parts2, i)
         IN  IF num1 # num2 THEN num1 - num2
             ELSE compareLoopDiff(parts1, parts2, i + 1, maxLength)

RECURSIVE compareLoop(_, _, _, _)
compareLoop(parts1, parts2, i, maxLength) ==
    IF i > maxLength THEN 0
    ELSE LET num1 == partAt(parts1, i)
             num2 == partAt(parts2, i)
         IN  IF num1 > num2 THEN 1
             ELSE IF num1 < num2 THEN -1
             ELSE compareLoop(parts1, parts2, i + 1, maxLength)

\* compareVersions looping over the shorter of the two sequences only.
compareVersionsNoPad(v1, v2) ==
    LET parts1 == parts(v1)
        parts2 == parts(v2)
        minLength == IF Len(parts1) <= Len(parts2) THEN Len(parts1) ELSE Len(parts2)
    IN  compareLoop(parts1, parts2, 1, minLength)

compareVersions(v1, v2) ==
    LET parts1 == parts(v1)
        parts2 == parts(v2)
        maxLength == Max(Len(parts1), Len(parts2))
    IN  compareLoop(parts1, parts2, 1, maxLength)

(* compareVersions, the dev-builds browser's own copy *)

RECURSIVE devCompareLoop(_, _, _, _)
devCompareLoop(parts1, parts2, i, maxLength) ==
    IF i > maxLength THEN 0
    ELSE LET num1 == partAt(parts1, i)
             num2 == partAt(parts2, i)
         IN  IF num1 > num2 THEN 1
             ELSE IF num1 < num2 THEN -1
             ELSE devCompareLoop(parts1, parts2, i + 1, maxLength)

devCompareVersions(v1, v2) ==
    LET parts1 == parts(v1)
        parts2 == parts(v2)
        maxLength == Max(Len(parts1), Len(parts2))
    IN  devCompareLoop(parts1, parts2, 1, maxLength)

----------------------------------------------------------------------------
(* Inputs of the comparator harness *)

\* Segments joined with dots.
RECURSIVE Join(_)
Join(segs) ==
    IF Len(segs) = 1 THEN segs[1]
    ELSE segs[1] \o <<".">> \o Join(Tail(segs))

SegStrs == { <<>>, <<"1">>, <<"9">>, <<"1", "0">> }

MaxSegs == 2

SegSeqs == UNION { [1..n -> SegStrs] : n \in 1..MaxSegs }

V_1_10_0 == <<"1", ".", "1", "0", ".", "0">>
V_1_9_9 == <<"1", ".", "9", ".", "9">>
V_2_0 == <<"2", ".", "0">>
V_2_0_0 == <<"2", ".", "0", ".", "0">>

\* Strings with a zero, a leading zero, a non-numeric suffix and a sign.
OddVersions ==
    { <<"0">>, <<"0", "1">>, <<"1", ".", "3", "b">>, <<"-", "1">>, <<"b">> }

Versions ==
    { Join(ss) : ss \in SegSeqs }
    \cup {V_1_10_0, V_1_9_9, V_2_0, V_2_0_0} \cup OddVersions

NoResult == [done |-> FALSE, rel |-> 0, dev |-> 0]

----------------------------------------------------------------------------
(* Artifacts and backend responses *)

V10 == <<"1", ".", "0">>
V20 == <<"2", ".", "0">>
V100 == <<"1", ".", "0", ".", "0">>

paper == <<"p", "a", "p", "e", "r">>
purpur == <<"p", "u", "r", "p", "u", "r">>
fabric == <<"f", "a", "b", "r", "i", "c">>
PaperCap == <<"P", "a", "p", "e", "r">>

\* A property read from an object that does not carry it.
Undefined == <<"undefined">>

\* JavaScript truthiness of a string-valued expression.
Truthy(s) == s # Empty /\ s # Undefined

\* An element of the backend's list with the two size fields the wizard reads
\* (ApiRelease: size?, file_size).
ApiRelease(v, p, b, size, file_size) ==
    [shape |-> "artifact", version |-> v, platform |-> p, build_id |-> b,
     size |-> size, file_size |-> file_size]

KiB == <<"1", "0", "2", "4">>

Artifact(v, p, b) == ApiRelease(v, p, b, Undefined, KiB)

\* The response envelope itself, when it ends up as an element of the list:
\* it has no version, platform or build_id property.
EnvelopeObject(kind) ==
    [shape |-> kind, version |-> Undefined, platform |-> Undefined, build_id |-> 0,
     size |-> Undefined, file_size |-> Undefined]

Pool == { Artifact(V10, paper, 5), Artifact(V10, paper, 3),
          Artifact(V20, paper, 1), Artifact(V100, PaperCap, 3) }

MaxCat == 3

Catalogs == UNION { [1..n -> Pool] : n \in 0..MaxCat }

\* What a fetch can end with.  outcome:
\*   "neterr"   fetch() rejects
\*   "status"   a response with ok = false
\*   "badjson"  response.json() rejects
\*   "nonerror" the awaited promise rejects with a value that is not an Error
\*   "envelope" a 2xx response with a JSON object; kind says what its data
\*              field is: "array" (arr), "object" (obj), "null" or "absent".
Response(outcome, kind, arr, obj) ==
    [outcome |-> outcome, kind |-> kind, arr |-> arr, obj |-> obj]

NoObject == EnvelopeObject("none")

Failures == { Response(o, "absent", <<>>, NoObject) : o \in {"neterr", "status", "badjson", "nonerror"} }

ArrayResponses(cats) == { Response("envelope", "array", c, NoObject) : c \in cats }

ObjectResponses == { Response("envelope", "object", <<>>, a) : a \in Pool }

NullResponses == { Response("envelope", k, <<>>, NoObject) : k \in {"null", "absent"} }

NoResponse == Response("none", "absent", <<>>, NoObject)

NoError == [set |-> FALSE, text |-> <<>>]

ErrorMessage(text) == [set |-> TRUE, text |-> text]

----------------------------------------------------------------------------
(* Array helpers of the two browser pages *)

Range(f) == { f[i] : i \in DOMAIN f }

\* UTF-16 code unit order of the characters the model uses.
CodeOrder ==
    <<" ", "+", "-", ".", "0", "1", "2", "3", "4", "5", "6", "7", "8", "9",
      "A", "B", "C", "D", "E", "F", "G", "H", "I", "J", "K", "L", "M", "N", "O",
      "P", "Q", "R", "S", "T", "U", "V", "W", "X", "Y", "Z",
      "a", "b", "c", "d", "e", "f", "g", "h", "i", "j", "k", "l", "m", "n", "o",
      "p", "q", "r", "s", "t", "u", "v", "w", "x", "y", "z">>

charCode(ch) == CHOOSE i \in 1..Len(CodeOrder) : CodeOrder[i] = ch

\* a < b on strings: by code units, a proper prefix first.
RECURSIVE stringLess(_, _)
stringLess(a, b) ==
    IF b = <<>> THEN FALSE
    ELSE IF a = <<>> THEN TRUE
    ELSE IF a[1] # b[1] THEN charCode(a[1]) < charCode(b[1])
    ELSE stringLess(Tail(a), Tail(b))

\* Array.prototype.sort() with no comparator: undefined goes last, the rest in
\* ascending code-unit order.
defaultOrder(x, y) ==
    IF x = Undefined THEN (IF y = Undefined THEN 0 ELSE 1)
    ELSE IF y = Undefined THEN -1
    ELSE IF stringLess(x, y) THEN -1
    ELSE IF stringLess(y, x) THEN 1
    ELSE 0

\* The comparator with the build ids taken in ascending order.
releaseOrderAscendingBuild(a, b) ==
    LET versionDiff == compareVersions(b.version, a.version)
    IN  IF versionDiff # 0 THEN versionDiff ELSE a.build_id - b.build_id

\* The comparator of processedReleases (Releases.tsx).
releaseOrder(a, b) ==
    LET versionDiff == compareVersions(b.version, a.version)
    IN  IF versionDiff # 0 THEN versionDiff ELSE b.build_id - a.build_id

\* The comparator of processedBuilds (dev-builds browser).
buildOrder(a, b) ==
    LET versionDiff == devCompareVersions(b.version, a.version)
    IN  IF versionDiff # 0 THEN versionDiff ELSE b.build_id - a.build_id

\* The collation order of the characters that are neither digits nor letters:
\* white space, then punctuation, then symbols; all of them before the digits.
CollationMarks == <<" ", "-", ".", "+">>

\* Collation elements of a string under { numeric: true, sensitivity: 'base' }:
\* a run of digits is one element weighed by its value (leading zeros do not
\* count), a letter is weighed without its case, and the classes rank
\* marks < numbers < letters.
CollationElement(class, weight) == [class |-> class, weight |-> weight]

RECURSIVE collationElements(_)
collationElements(str) ==
    IF str = <<>> THEN <<>>
    ELSE IF str[1] \in Digits
    THEN LET ds == digitPrefix(str)
         IN  <<CollationElement(1, digitsValue(ds))>>
             \o collationElements(SubSeq(str, Len(ds) + 1, Len(str)))
    ELSE IF \E i \in 1..Len(CollationMarks) : CollationMarks[i] = str[1]
    THEN <<CollationElement(0, CHOOSE i \in 1..Len(CollationMarks) :
                                   CollationMarks[i] = str[1])>>
         \o collationElements(Tail(str))
    ELSE <<CollationElement(2, charCode(lowerChar(str[1])))>>
         \o collationElements(Tail(str))

RECURSIVE compareElements(_, _)
compareElements(xs, ys) ==
    IF xs = <<>> THEN (IF ys = <<>> THEN 0 ELSE -1)
    ELSE IF ys = <<>> THEN 1
    ELSE IF xs[1].class # ys[1].class
         THEN (IF xs[1].class < ys[1].class THEN -1 ELSE 1)
    ELSE IF xs[1].weight # ys[1].weight
         THEN (IF xs[1].weight < ys[1].weight THEN -1 ELSE 1)
    ELSE compareElements(Tail(xs), Tail(ys))

\* a.localeCompare(b, undefined, { numeric: true, sensitivity: 'base' })
localeCompare(a, b) == compareElements(collationElements(a), collationElements(b))

sortOrder(ord, x, y) ==
    CASE ord = "releases" -> releaseOrder(x, y)
      [] ord = "devbuilds" -> buildOrder(x, y)
      [] ord = "releaseVersions" -> compareVersions(y, x)
      [] ord = "devVersions" -> devCompareVersions(y, x)
      [] ord = "default" -> defaultOrder(x, y)
      [] ord = "uniqueVersions" -> localeCompare(y, x)

\* Array.prototype.sort(comparator): a stable sort; x stays before y unless the
\* comparator says x sorts after y.
RECURSIVE insertSorted(_, _, _)
insertSorted(ord, s, e) ==
    IF s = <<>> THEN <<e>>
    ELSE IF sortOrder(ord, s[1], e) <= 0
         THEN <<s[1]>> \o insertSorted(ord, Tail(s), e)
         ELSE <<e>> \o s

RECURSIVE arraySort(_, _)
arraySort(ord, xs) ==
    IF xs = <<>> THEN <<>>
    ELSE insertSorted(ord, arraySort(ord, SubSeq(xs, 1, Len(xs) - 1)), xs[Len(xs)])

\* Array.from(new Set(xs)): the distinct elements in order of first occurrence.
RECURSIVE dedupe(_)
\* The array without the pass through a Set.
keepDuplicates(xs) == xs

dedupe(xs) ==
    IF xs = <<>> THEN <<>>
    ELSE LET front == dedupe(SubSeq(xs, 1, Len(xs) - 1))
         IN  IF xs[Len(xs)] \in Range(front) THEN front
             ELSE Append(front, xs[Len(xs)])

versionsOf(rels) == [i \in 1..Len(rels) |-> rels[i].version]

platformsOf(rels) == [i \in 1..Len(rels) |-> rels[i].platform]

----------------------------------------------------------------------------
(* Derived views (useMemo) of the browser pages *)

availableVersions(pg, rels) ==
    arraySort(IF pg = "releases" THEN "releaseVersions" ELSE "devVersions",
              dedupe(versionsOf(rels)))

availablePlatforms(rels) == arraySort("default", dedupe(platformsOf(rels)))

\* The version filter matching by compareVersions instead of by string.
filterVersionByCompare(rels, selV) ==
    IF Truthy(selV)
    THEN SelectSeq(rels, LAMBDA r : compareVersions(r.version, selV) = 0)
    ELSE rels

\* The version filter left out.
filterVersionSkipped(rels, selV) == rels

filterVersion(rels, selV) ==
    IF Truthy(selV) THEN SelectSeq(rels, LAMBDA r : r.version = selV) ELSE rels

filterPlatform(rels, selP) ==
    IF Truthy(selP) THEN SelectSeq(rels, LAMBDA r : r.platform = selP) ELSE rels

processedReleases(rels, selV, selP) ==
    arraySort("releases", filterPlatform(filterVersion(rels, selV), selP))

processedBuilds(rels, selV, selP) ==
    arraySort("devbuilds", filterPlatform(filterVersion(rels, selV), selP))

processed(pg, rels, selV, selP) ==
    IF pg = "releases" THEN processedReleases(rels, selV, selP)
    ELSE processedBuilds(rels, selV, selP)

\* The list the page shows.
visible == processed(page, releases, selectedVersion, selectedPlatform)

\* The updater without the clearing branch.
togglePlatformNoClear(prev, plat) == plat

\* setSelectedPlatform(prev => prev === plat ? '' : plat)
togglePlatform(prev, plat) == IF prev = plat THEN Empty ELSE plat

\* The empty state: rendered when !loading && !error and the visible list is
\* empty.  error is a string or null, so an empty message is not an error.
emptyStateShown(isLoadingNow, err, shown) ==
    ~isLoadingNow /\ ~(err.set /\ err.text # <<>>) /\ Len(shown) = 0

\* The hint under the empty state's title.  Releases tests selectedVersion
\* only; DevBuilds tests selectedVersion || selectedPlatform.
emptyHint(pg, version, platform) ==
    IF pg = "releases"
    THEN (IF Truthy(version) THEN "No releases available for version"
          ELSE "Check back later for new releases")
    ELSE (IF Truthy(version) \/ Truthy(platform)
          THEN "Try adjusting your version or platform filters"
          ELSE "Check back later for new development builds")

----------------------------------------------------------------------------
(* Fetch normalisation and failure of the browser pages *)

\* Releases.tsx: Array.isArray(data.data) ? data.data : (data ? [data] : [])
\* where data is the parsed body, i.e. the envelope, which is an object and so
\* truthy.
releasesData(resp) ==
    IF resp.kind = "array" THEN resp.arr
    ELSE <<EnvelopeObject(resp.kind)>>

\* dev builds: Array.isArray(data.data) ? data.data : (data.data ? [data.data] : [])
buildsData(resp) ==
    IF resp.kind = "array" THEN resp.arr
    ELSE IF resp.kind = "object" THEN <<resp.obj>>
    ELSE <<>>

StatusText == "Not Found"

\* The message of the Error the try block throws.
thrownMessage(pg, resp) ==
    CASE resp.outcome = "status" ->
            <<IF pg = "releases" THEN "Failed to fetch releases: "
              ELSE "Failed to fetch dev builds: ", StatusText>>
      [] resp.outcome = "neterr" -> <<"Failed to fetch">>
      [] resp.outcome = "badjson" -> <<"Unexpected token < in JSON at position 0">>
      [] OTHER -> <<>>

\* A catch block that reports the generic text whatever was thrown.
caughtMessageGeneric(pg, resp) ==
    <<IF pg = "releases" THEN "Failed to load releases"
      ELSE "Failed to load dev builds">>

\* The text the catch block hands to setError:
\* err instanceof Error ? err.message : 'Failed to load releases'
caughtMessage(pg, resp) ==
    IF resp.outcome = "nonerror"
    THEN <<IF pg = "releases" THEN "Failed to load releases"
           ELSE "Failed to load dev builds">>
    ELSE thrownMessage(pg, resp)

----------------------------------------------------------------------------
(* Browser page: state after mount, and its steps *)

Pages == {"releases", "devbuilds"}

RouteVersions == {Empty, V10}

RouteBuilds == {Empty, <<"3">>}

MaxInflight == 2

\* A query string that always carries both parameters.
queryParamsAlways(version, build_number) ==
    << <<"version", version>>, <<"build_id", build_number>> >>

\* The query string of the collection request: a parameter only when the
\* route carries it.
queryParams(version, build_number) ==
    (IF Truthy(version) THEN << <<"version", version>> >> ELSE <<>>)
    \o (IF Truthy(build_number) THEN << <<"build_id", build_number>> >> ELSE <<>>)

BrowserCatalogs ==
    { <<>>,
      <<Artifact(V10, paper, 3)>>,
      <<Artifact(V20, paper, 1), Artifact(V10, PaperCap, 3)>> }

BrowserResponses ==
    Failures \cup ArrayResponses(BrowserCatalogs) \cup NullResponses
    \cup { Response("envelope", "object", <<>>, Artifact(V10, paper, 5)) }

\* The request whose response was delivered last since the latest fetch was
\* started: whether a request started after it had been answered before it
\* (late), and whether its query differs from the one the route asks for at
\* that moment (stale).
Settled(late, stale) == [late |-> late, stale |-> stale]

NoneSettled == Settled(FALSE, FALSE)

PageMounted ==
    /\ page \in Pages
    /\ routeVersion \in RouteVersions
    /\ routeBuild \in RouteBuilds
    /\ effectsPending = "sync+fetch"
    /\ releases = <<>>
    /\ loading = TRUE
    /\ error = NoError
    /\ selectedVersion = (IF Truthy(routeVersion) THEN routeVersion ELSE Empty)
    /\ selectedPlatform = Empty
    /\ inflight = <<>>
    /\ platform0 = Empty
    /\ calls = <<>>
    /\ lastFetch = NoResponse
    /\ overtaken = <<>>
    /\ lastSettled = NoneSettled

\* The page is not the component under study.
PageIdle ==
    /\ page = "releases"
    /\ routeVersion = Empty
    /\ routeBuild = Empty
    /\ effectsPending = "none"
    /\ releases = <<>>
    /\ loading = TRUE
    /\ error = NoError
    /\ selectedVersion = Empty
    /\ selectedPlatform = Empty
    /\ inflight = <<>>
    /\ platform0 = Empty
    /\ calls = <<>>
    /\ lastFetch = NoResponse
    /\ overtaken = <<>>
    /\ lastSettled = NoneSettled

\* The route parameters change (useParams): the effects that depend on them are
\* scheduled and run before anything else is handled.
routeTo(version, build_number) ==
    /\ routeVersion' = version
    /\ routeBuild' = build_number
    /\ effectsPending' =
          (IF version # routeVersion THEN "sync+fetch"
           ELSE IF build_number # routeBuild THEN "fetch"
           ELSE "none")
    /\ calls' = <<>>
    /\ platform0' = selectedPlatform
    /\ UNCHANGED <<page, releases, loading, error, selectedVersion,
                   selectedPlatform, inflight, lastFetch, overtaken, lastSettled>>

\* Navigation from outside the page (a link, the address bar).
RouteChange(version, build_number) ==
    /\ effectsPending = "none"
    /\ Len(inflight) < MaxInflight
    /\ <<version, build_number>> # <<routeVersion, routeBuild>>
    /\ routeTo(version, build_number)
    /\ UNCHANGED <<cmpVars, wizVars, viewVars, heroVars, logVars>>

\* handleVersionFilter: navigate to /<page>/<ver>, or to /<page> for ''.
handleVersionFilter(ver) ==
    /\ effectsPending = "none"
    /\ Len(inflight) < MaxInflight
    /\ routeTo(IF Truthy(ver) THEN ver ELSE Empty, Empty)
    /\ Len(availableVersions(page, releases)) > 0
    /\ UNCHANGED <<cmpVars, wizVars, viewVars, heroVars, logVars>>

\* The effects with a fetch that does not call setError(null) first.
RunEffectsKeepsError ==
    /\ effectsPending # "none"
    /\ selectedVersion' =
          (IF effectsPending = "sync+fetch"
           THEN (IF Truthy(routeVersion) THEN routeVersion ELSE Empty)
           ELSE selectedVersion)
    /\ loading' = TRUE
    /\ inflight' = Append(inflight, queryParams(routeVersion, routeBuild))
    /\ overtaken' = Append(overtaken, FALSE)
    /\ lastSettled' = NoneSettled
    /\ effectsPending' = "none"
    /\ calls' = <<>>
    /\ platform0' = selectedPlatform
    /\ UNCHANGED <<page, routeVersion, routeBuild, releases, error,
                   selectedPlatform, lastFetch>>
    /\ UNCHANGED <<cmpVars, wizVars, viewVars, heroVars, logVars>>

\* The effects without the one that copies the route version.
RunEffectsNoSync ==
    /\ effectsPending # "none"
    /\ loading' = TRUE
    /\ error' = NoError
    /\ inflight' = Append(inflight, queryParams(routeVersion, routeBuild))
    /\ overtaken' = Append(overtaken, FALSE)
    /\ lastSettled' = NoneSettled
    /\ effectsPending' = "none"
    /\ calls' = <<>>
    /\ platform0' = selectedPlatform
    /\ UNCHANGED <<page, routeVersion, routeBuild, releases, selectedVersion,
                   selectedPlatform, lastFetch>>
    /\ UNCHANGED <<cmpVars, wizVars, viewVars, heroVars, logVars>>

\* The two effects: [version] copies the route version into selectedVersion,
\* [version, build_number] runs fetchReleases / fetchBuilds up to its await.
RunEffects ==
    /\ effectsPending # "none"
    /\ selectedVersion' =
          (IF effectsPending = "sync+fetch"
           THEN (IF Truthy(routeVersion) THEN routeVersion ELSE Empty)
           ELSE selectedVersion)
    /\ loading' = TRUE
    /\ error' = NoError
    /\ inflight' = Append(inflight, queryParams(routeVersion, routeBuild))
    /\ overtaken' = Append(overtaken, FALSE)
    /\ lastSettled' = NoneSettled
    /\ effectsPending' = "none"
    /\ calls' = <<>>
    /\ platform0' = selectedPlatform
    /\ UNCHANGED <<page, routeVersion, routeBuild, releases, selectedPlatform,
                   lastFetch>>
    /\ UNCHANGED <<cmpVars, wizVars, viewVars, heroVars, logVars>>

RemoveAt(s, i) == SubSeq(s, 1, i - 1) \o SubSeq(s, i + 1, Len(s))

\* The completion with setLoading(false) at the end of the try block instead
\* of in a finally.
FetchResolveLoadingOnSuccess(i, resp) ==
    /\ effectsPending = "none"
    /\ i \in 1..Len(inflight)
    /\ IF resp.outcome = "envelope"
       THEN /\ releases' = (IF page = "releases" THEN releasesData(resp)
                            ELSE buildsData(resp))
            /\ error' = error
            /\ loading' = FALSE
       ELSE /\ error' = ErrorMessage(caughtMessage(page, resp))
            /\ releases' = <<>>
            /\ loading' = loading
    /\ inflight' = RemoveAt(inflight, i)
    /\ lastFetch' = resp
    /\ lastSettled' = Settled(overtaken[i],
                              inflight[i] # queryParams(routeVersion, routeBuild))
    /\ overtaken' = RemoveAt([j \in 1..Len(overtaken) |-> overtaken[j] \/ j < i], i)
    /\ calls' = <<>>
    /\ platform0' = selectedPlatform
    /\ UNCHANGED <<page, routeVersion, routeBuild, effectsPending,
                   selectedVersion, selectedPlatform>>
    /\ UNCHANGED <<cmpVars, wizVars, viewVars, heroVars, logVars>>

\* A completion that drops the response of a request which a younger one has
\* already overtaken.
FetchResolveIgnoresLate(i, resp) ==
    /\ effectsPending = "none"
    /\ i \in 1..Len(inflight)
    /\ IF overtaken[i]
       THEN UNCHANGED <<releases, error>>
       ELSE IF resp.outcome = "envelope"
       THEN /\ releases' = (IF page = "releases" THEN releasesData(resp)
                            ELSE buildsData(resp))
            /\ error' = error
       ELSE /\ error' = ErrorMessage(caughtMessage(page, resp))
            /\ releases' = <<>>
    /\ loading' = FALSE
    /\ inflight' = RemoveAt(inflight, i)
    /\ lastFetch' = resp
    /\ lastSettled' = Settled(overtaken[i],
                              inflight[i] # queryParams(routeVersion, routeBuild))
    /\ overtaken' = RemoveAt([j \in 1..Len(overtaken) |-> overtaken[j] \/ j < i], i)
    /\ calls' = <<>>
    /\ platform0' = selectedPlatform
    /\ UNCHANGED <<page, routeVersion, routeBuild, effectsPending,
                   selectedVersion, selectedPlatform>>
    /\ UNCHANGED <<cmpVars, wizVars, viewVars, heroVars, logVars>>

\* The rest of fetchReleases / fetchBuilds, from the await to the finally.
FetchResolve(i, resp) ==
    /\ effectsPending = "none"
    /\ i \in 1..Len(inflight)
    /\ IF resp.outcome = "envelope"
       THEN /\ releases' = (IF page = "releases" THEN releasesData(resp)
                            ELSE buildsData(resp))
            /\ error' = error
       ELSE /\ error' = ErrorMessage(caughtMessage(page, resp))
            /\ releases' = <<>>
    /\ loading' = FALSE
    /\ inflight' = RemoveAt(inflight, i)
    /\ lastFetch' = resp
    /\ lastSettled' = Settled(overtaken[i],
                              inflight[i] # queryParams(routeVersion, routeBuild))
    /\ overtaken' = RemoveAt([j \in 1..Len(overtaken) |-> overtaken[j] \/ j < i], i)
    /\ calls' = <<>>
    /\ platform0' = selectedPlatform
    /\ UNCHANGED <<page, routeVersion, routeBuild, effectsPending,
                   selectedVersion, selectedPlatform>>
    /\ UNCHANGED <<cmpVars, wizVars, viewVars, heroVars, logVars>>

\* A platform filter that is a dependency of the fetch effect.
handlePlatformFilterRefetch(plat) ==
    /\ effectsPending = "none"
    /\ selectedPlatform' = togglePlatform(selectedPlatform, plat)
    /\ effectsPending' = "fetch"
    /\ calls' = (IF Len(calls) < 2 THEN Append(calls, plat) ELSE <<calls[2], plat>>)
    /\ platform0' = (IF Len(calls) < 2 THEN platform0
                     ELSE togglePlatform(platform0, calls[1]))
    /\ UNCHANGED <<page, routeVersion, routeBuild, releases,
                   loading, error, selectedVersion, inflight, lastFetch,
                   overtaken, lastSettled>>
    /\ UNCHANGED <<cmpVars, wizVars, viewVars, heroVars, logVars>>

\* handlePlatformFilter, from a button of availablePlatforms.  calls keeps the
\* arguments of the last two consecutive calls and platform0 the filter before
\* the first of them.
handlePlatformFilter(plat) ==
    /\ effectsPending = "none"
    /\ selectedPlatform' = togglePlatform(selectedPlatform, plat)
    /\ calls' = (IF Len(calls) < 2 THEN Append(calls, plat) ELSE <<calls[2], plat>>)
    /\ platform0' = (IF Len(calls) < 2 THEN platform0
                     ELSE togglePlatform(platform0, calls[1]))
    /\ UNCHANGED <<page, routeVersion, routeBuild, effectsPending, releases,
                   loading, error, selectedVersion, inflight, lastFetch,
                   overtaken, lastSettled>>
    /\ UNCHANGED <<cmpVars, wizVars, viewVars, heroVars, logVars>>

\* The 'All Platforms' button: setSelectedPlatform('').
clearPlatformFilter ==
    /\ effectsPending = "none"
    /\ Len(availablePlatforms(releases)) > 0
    /\ selectedPlatform' = Empty
    /\ calls' = <<>>
    /\ platform0' = Empty
    /\ UNCHANGED <<page, routeVersion, routeBuild, effectsPending, releases,
                   loading, error, selectedVersion, inflight, lastFetch,
                   overtaken, lastSettled>>
    /\ UNCHANGED <<cmpVars, wizVars, viewVars, heroVars, logVars>>

----------------------------------------------------------------------------
(* Download wizard (DownloadModal) *)

PLATFORMS_META == <<paper, purpur, fabric>>

\* The test of releases.some(...) at step 2 and of releases.find(...) in
\* getDownloadData.
matches(r, version, platform) ==
    r.version = version /\ toLowerCase(r.platform) = toLowerCase(platform)

isAvailable(rels, version, platformId) ==
    \E i \in 1..Len(rels) : matches(rels[i], version, platformId)

ApiRoot ==
    <<"h", "t", "t", "p", "s", ":", "/", "/", "a", "p", "i", ".", "p", "u", "l", "s", "e", "m", "c", ".", "d", "e", "v">>

DownloadPath ==
    <<"/", "r", "e", "l", "e", "a", "s", "e", "/", "d", "o", "w", "n", "l", "o", "a", "d", "/">>

\* `x || y` on string-valued properties: the first truthy one.
OrElse(x, y) == IF Truthy(x) THEN x ELSE y

\* getDownloadData: null when no artifact matches; otherwise the descriptor of
\* the first matching artifact (Array.prototype.find), with
\*   link  the API root, the download path and the build_id,
\*   size  data.size || data.file_size || "0".
getDownloadData(rels, version, platform) ==
    IF \E i \in 1..Len(rels) : matches(rels[i], version, platform)
    THEN LET k == CHOOSE i \in 1..Len(rels) :
                      /\ matches(rels[i], version, platform)
                      /\ \A j \in 1..(i - 1) : ~matches(rels[j], version, platform)
         IN  [found |-> TRUE, build_id |-> rels[k].build_id,
              link |-> ApiRoot \o DownloadPath \o numberToString(rels[k].build_id),
              size |-> OrElse(rels[k].size, OrElse(rels[k].file_size, <<"0">>))]
    ELSE [found |-> FALSE, build_id |-> 0, link |-> Empty, size |-> Empty]

\* 1024 to the power i.
RECURSIVE kPow(_)
kPow(i) == IF i = 0 THEN 1 ELSE 1024 * kPow(i - 1)

\* Math.floor(Math.log(bytes) / Math.log(1024)) for bytes >= 1.
RECURSIVE unitIndex(_)
unitIndex(bytes) == IF bytes < 1024 THEN 0 ELSE 1 + unitIndex(bytes \div 1024)

sizes == <<<<"B", "y", "t", "e", "s">>, <<"K", "B">>, <<"M", "B">>, <<"G", "B">>>>

\* parseFloat(x.toFixed(2)) printed, for x given in hundredths: two decimals,
\* trailing zeros dropped.
fixedText(hundredths) ==
    LET whole == hundredths \div 100
        frac == hundredths % 100
    IN  numberToString(whole)
        \o (IF frac = 0 THEN <<>>
            ELSE IF frac % 10 = 0 THEN <<".", DigitChar(frac \div 10)>>
            ELSE <<".", DigitChar(frac \div 10), DigitChar(frac % 10)>>)

\* formatBytes(bytes) of the step-3 view, bytes being the result of parseInt:
\* NaN and 0 both give '0 Bytes' (!+bytes); a negative number has no
\* logarithm and prints 'NaN undefined'; a unit past GB prints 'undefined'.
formatBytes(bytes) ==
    IF bytes.nan \/ bytes.val = 0 THEN <<"0", " ", "B", "y", "t", "e", "s">>
    ELSE IF bytes.val < 0 THEN <<"N", "a", "N", " ", "u", "n", "d", "e", "f", "i", "n", "e", "d">>
    ELSE LET i == unitIndex(bytes.val)
             hundredths == (2 * 100 * bytes.val + kPow(i)) \div (2 * kPow(i))
         IN  fixedText(hundredths) \o <<" ">>
             \o (IF i + 1 <= Len(sizes) THEN sizes[i + 1] ELSE Undefined)

\* uniqueVersions: the distinct versions, sorted descending by localeCompare
\* with { numeric: true, sensitivity: 'base' }.
uniqueVersions(rels) == arraySort("uniqueVersions", dedupe(versionsOf(rels)))

\* uniqueVersions as a set: the version buttons of step 1.
uniqueVersionSet(rels) == Range(versionsOf(rels))

MaxWizCat == 1

WizCatalogs == UNION { [1..n -> Pool] : n \in 0..MaxWizCat }

WizResponses ==
    Failures \cup ArrayResponses(WizCatalogs) \cup NullResponses
    \cup { Response("envelope", "object", <<>>, Artifact(V10, paper, 5)) }

MaxWizInflight == 2

\* The last wizard operation: op, its string argument, its response, and the
\* step it was invoked at.
Op(name, str, resp) == [op |-> name, str |-> str, resp |-> resp, from |-> step]

\* Mounted with isOpen = false: the [isOpen] effect's else branch has armed the
\* reset timer.
WizMounted ==
    /\ isOpen = FALSE
    /\ step = 1
    /\ wSelectedVersion = Empty
    /\ wSelectedPlatform = Empty
    /\ wReleases = <<>>
    /\ isLoading = TRUE
    /\ wError = FALSE
    /\ isDownloading = FALSE
    /\ resetTimer = TRUE
    /\ animTimer = FALSE
    /\ wInflight = 0
    /\ wLast = Op("mount", Empty, NoResponse)

\* LandingPage owns isOpen (isDownloadModalOpen): Hero's download button sets
\* it to true, the onClose callback it passes sets it to false.  The modal
\* stays mounted while closed, so its state survives a close.
setIsOpen(value) == isOpen' = value

\* The parent sets isOpen to true; the [isOpen] effect clears the pending reset
\* timer (cleanup) and runs its open branch.
Open ==
    /\ ~isOpen
    /\ wInflight < MaxWizInflight
    /\ setIsOpen(TRUE)
    /\ resetTimer' = FALSE
    /\ isLoading' = TRUE
    /\ wError' = FALSE
    /\ isDownloading' = FALSE
    /\ animTimer' = FALSE
    /\ wInflight' = wInflight + 1
    /\ wLast' = Op("open", Empty, NoResponse)
    /\ UNCHANGED <<step, wSelectedVersion, wSelectedPlatform, wReleases>>
    /\ UNCHANGED <<cmpVars, pageVars, viewVars, heroVars, logVars>>

\* onClose(): the parent sets isOpen to false; the [isOpen] effect's else
\* branch arms the 300 ms reset timer.
onClose ==
    /\ setIsOpen(FALSE)
    /\ resetTimer' = (IF isOpen THEN TRUE ELSE resetTimer)

\* A close control without the isDownloading test.
handleCloseAlways ==
    /\ isOpen
    /\ onClose
    /\ wLast' = Op("handleClose", Empty, NoResponse)
    /\ UNCHANGED <<step, wSelectedVersion, wSelectedPlatform, wReleases, isLoading,
                   wError, isDownloading, animTimer, wInflight>>
    /\ UNCHANGED <<cmpVars, pageVars, viewVars, heroVars, logVars>>

\* handleClose: the modal's close control and the error view's Close button.
handleClose ==
    /\ isOpen
    /\ IF isDownloading
       THEN UNCHANGED <<isOpen, resetTimer>>
       ELSE onClose
    /\ wLast' = Op("handleClose", Empty, NoResponse)
    /\ UNCHANGED <<step, wSelectedVersion, wSelectedPlatform, wReleases, isLoading,
                   wError, isDownloading, animTimer, wInflight>>
    /\ UNCHANGED <<cmpVars, pageVars, viewVars, heroVars, logVars>>

\* The step views are rendered when the modal is open, not loading and without
\* error; the wrapper takes no pointer events while downloading.
Interactive == isOpen /\ ~isLoading /\ ~wError /\ ~isDownloading

handleVersionSelect(version) ==
    /\ Interactive
    /\ step = 1
    /\ wSelectedVersion' = version
    /\ step' = 2
    /\ wLast' = Op("handleVersionSelect", version, NoResponse)
    /\ UNCHANGED <<isOpen, wSelectedPlatform, wReleases, isLoading, wError,
                   isDownloading, resetTimer, animTimer, wInflight>>
    /\ UNCHANGED <<cmpVars, pageVars, viewVars, heroVars, logVars>>

handlePlatformSelect(platform) ==
    /\ wSelectedPlatform' = platform
    /\ step' = 3

\* The platform button without its availability guard.
clickPlatformUnguarded(platformId) ==
    /\ Interactive
    /\ step = 2
    /\ handlePlatformSelect(platformId)
    /\ wLast' = Op("clickPlatform", platformId, NoResponse)
    /\ UNCHANGED <<isOpen, wSelectedVersion, wReleases, isLoading, wError,
                   isDownloading, resetTimer, animTimer, wInflight>>
    /\ UNCHANGED <<cmpVars, pageVars, viewVars, heroVars, logVars>>

\* A click on a platform button of step 2: disabled={!isAvailable} and
\* onClick={() => isAvailable && handlePlatformSelect(platform.id)}.
clickPlatform(platformId) ==
    /\ Interactive
    /\ step = 2
    /\ IF isAvailable(wReleases, wSelectedVersion, platformId)
       THEN handlePlatformSelect(platformId)
       ELSE UNCHANGED <<wSelectedPlatform, step>>
    /\ wLast' = Op("clickPlatform", platformId, NoResponse)
    /\ UNCHANGED <<isOpen, wSelectedVersion, wReleases, isLoading, wError,
                   isDownloading, resetTimer, animTimer, wInflight>>
    /\ UNCHANGED <<cmpVars, pageVars, viewVars, heroVars, logVars>>

\* A back button that also forgets the chosen version.
backToVersionClears ==
    /\ Interactive
    /\ step = 2
    /\ step' = 1
    /\ wSelectedVersion' = Empty
    /\ wLast' = Op("backToVersion", Empty, NoResponse)
    /\ UNCHANGED <<isOpen, wSelectedPlatform, wReleases,
                   isLoading, wError, isDownloading, resetTimer, animTimer,
                   wInflight>>
    /\ UNCHANGED <<cmpVars, pageVars, viewVars, heroVars, logVars>>

\* '<- Back to version selection': setStep(1).
backToVersion ==
    /\ Interactive
    /\ step = 2
    /\ step' = 1
    /\ wLast' = Op("backToVersion", Empty, NoResponse)
    /\ UNCHANGED <<isOpen, wSelectedVersion, wSelectedPlatform, wReleases,
                   isLoading, wError, isDownloading, resetTimer, animTimer,
                   wInflight>>
    /\ UNCHANGED <<cmpVars, pageVars, viewVars, heroVars, logVars>>

\* '<- Change platform': setStep(2); rendered with step 3's view.
changePlatform ==
    /\ Interactive
    /\ step = 3
    /\ getDownloadData(wReleases, wSelectedVersion, wSelectedPlatform).found
    /\ step' = 2
    /\ wLast' = Op("changePlatform", Empty, NoResponse)
    /\ UNCHANGED <<isOpen, wSelectedVersion, wSelectedPlatform, wReleases,
                   isLoading, wError, isDownloading, resetTimer, animTimer,
                   wInflight>>
    /\ UNCHANGED <<cmpVars, pageVars, viewVars, heroVars, logVars>>

\* handleDownloadClick: the anchor is clicked, isDownloading is set, and
\* DownloadAnimation mounts and arms its 750 ms timer.
handleDownloadClick ==
    /\ Interactive
    /\ step = 3
    /\ getDownloadData(wReleases, wSelectedVersion, wSelectedPlatform).found
    /\ isDownloading' = TRUE
    /\ animTimer' = TRUE
    /\ wLast' = Op("handleDownloadClick", Empty, NoResponse)
    /\ UNCHANGED <<isOpen, step, wSelectedVersion, wSelectedPlatform, wReleases,
                   isLoading, wError, resetTimer, wInflight>>
    /\ UNCHANGED <<cmpVars, pageVars, viewVars, heroVars, logVars>>

\* DownloadAnimation's 750 ms timer: onComplete = handleAnimationComplete calls
\* onClose().  The re-render gives onComplete a new identity, so the animation's
\* effect re-arms its timers; a reset timer armed at the same instant (300 ms)
\* fires first.
handleAnimationComplete ==
    /\ animTimer
    /\ ~resetTimer
    /\ onClose
    /\ animTimer' = isOpen
    /\ wLast' = Op("handleAnimationComplete", Empty, NoResponse)
    /\ UNCHANGED <<step, wSelectedVersion, wSelectedPlatform, wReleases, isLoading,
                   wError, isDownloading, wInflight>>
    /\ UNCHANGED <<cmpVars, pageVars, viewVars, heroVars, logVars>>

\* The reset callback without setSelectedPlatform('').
ResetTimerKeepsPlatform ==
    /\ resetTimer
    /\ step' = 1
    /\ wSelectedVersion' = Empty
    /\ isDownloading' = FALSE
    /\ resetTimer' = FALSE
    /\ animTimer' = FALSE
    /\ wLast' = Op("resetTimer", Empty, NoResponse)
    /\ UNCHANGED <<isOpen, wSelectedPlatform, wReleases, isLoading, wError, wInflight>>
    /\ UNCHANGED <<cmpVars, pageVars, viewVars, heroVars, logVars>>

\* The timer callback without setStep(1).
ResetTimerKeepsStep ==
    /\ resetTimer
    /\ wSelectedVersion' = Empty
    /\ wSelectedPlatform' = Empty
    /\ isDownloading' = FALSE
    /\ resetTimer' = FALSE
    /\ animTimer' = FALSE
    /\ wLast' = Op("resetTimer", Empty, NoResponse)
    /\ UNCHANGED <<isOpen, step, wReleases, isLoading, wError, wInflight>>
    /\ UNCHANGED <<cmpVars, pageVars, viewVars, heroVars, logVars>>

\* The 300 ms timer of the [isOpen] effect's else branch fires.
ResetTimerFires ==
    /\ resetTimer
    /\ step' = 1
    /\ wSelectedVersion' = Empty
    /\ wSelectedPlatform' = Empty
    /\ isDownloading' = FALSE
    /\ resetTimer' = FALSE
    /\ animTimer' = FALSE
    /\ wLast' = Op("resetTimer", Empty, NoResponse)
    /\ UNCHANGED <<isOpen, wReleases, isLoading, wError, wInflight>>
    /\ UNCHANGED <<cmpVars, pageVars, viewVars, heroVars, logVars>>

\* The wizard's fetch settles: the .then(data => ...) or the .catch.
WizFetchResolve(resp) ==
    /\ wInflight > 0
    /\ IF resp.outcome = "envelope"
       THEN /\ wReleases' = (IF resp.kind = "array" THEN resp.arr ELSE <<>>)
            /\ wError' = wError
       ELSE /\ wError' = TRUE
            /\ wReleases' = wReleases
    /\ isLoading' = FALSE
    /\ wInflight' = wInflight - 1
    /\ wLast' = Op("resolve", Empty, resp)
    /\ UNCHANGED <<isOpen, step, wSelectedVersion, wSelectedPlatform,
                   isDownloading, resetTimer, animTimer>>
    /\ UNCHANGED <<cmpVars, pageVars, viewVars, heroVars, logVars>>

----------------------------------------------------------------------------
(* Releases browser: the changelog toggles *)

\* useState(new Set()): no changelog is expanded; no click has been made.
LogIdle == expandedReleases = {} /\ changelogClicks = <<>>

\* isExpanded of a displayed release: expandedReleases.has(release.build_id).
isExpanded(release, expanded) == release.build_id \in expanded

\* The updater of toggleChangelog: a copy of the set with buildId removed if it
\* was in it, added otherwise.
toggledSet(prev, buildId) ==
    IF buildId \in prev THEN prev \ {buildId} ELSE prev \cup {buildId}

\* The number of changelog clicks followed.
MaxClicks == 2

\* A click: the position of the clicked release in the displayed list, and the
\* set of expanded ids it found.
Click(index, before) == [index |-> index, before |-> before]

\* The changelog button of the index-th displayed release:
\* toggleChangelog(release.build_id).
toggleChangelog(index) ==
    /\ page = "releases"
    /\ effectsPending = "none"
    /\ index \in 1..Len(visible)
    /\ Len(changelogClicks) < MaxClicks
    /\ expandedReleases' = toggledSet(expandedReleases, visible[index].build_id)
    /\ changelogClicks' = Append(changelogClicks, Click(index, expandedReleases))
    /\ UNCHANGED <<cmpVars, pageVars, wizVars, viewVars, heroVars>>

----------------------------------------------------------------------------
(* The values the wizard derives while rendering (DownloadModal) *)

V101 == <<"1", ".", "0", ".", "1">>
V10a == <<"1", ".", "0", "a">>

\* Artifacts as the wizard's backend may list them: several builds of one
\* version and platform, pre-release suffixes, and every way the two size
\* fields can be filled.
ViewPool ==
    { ApiRelease(V10, paper, 5, Undefined, KiB),
      ApiRelease(V10, paper, 3, Undefined, Undefined),
      ApiRelease(V101, paper, 1, <<"0">>, KiB),
      ApiRelease(V10a, fabric, 7, <<"a", "b", "c">>, Empty),
      ApiRelease(V20, purpur, 2, Empty, <<"1", "5", "3", "6">>),
      ApiRelease(V100, PaperCap, 4, Empty, <<"0">>) }

MaxViewCat == 2

ViewCatalogs == UNION { [1..n -> ViewPool] : n \in 0..MaxViewCat }

ViewVersions == { r.version : r \in ViewPool }

NoView == [done |-> FALSE, versions |-> <<>>,
           data |-> getDownloadData(<<>>, Empty, Empty), shown |-> Empty]

ViewIdle ==
    /\ vCat = <<>>
    /\ vVersion = Empty
    /\ vPlatform = Empty
    /\ vOut = NoView

\* One render of the modal over a drawn catalog and selection: uniqueVersions
\* (useMemo), downloadData = getDownloadData(), and the size line of step 3,
\* formatBytes(parseInt(downloadData.size)).
Render ==
    /\ ~vOut.done
    /\ LET downloadData == getDownloadData(vCat, vVersion, vPlatform)
       IN  vOut' = [done |-> TRUE,
                    versions |-> uniqueVersions(vCat),
                    data |-> downloadData,
                    shown |-> IF downloadData.found
                              THEN formatBytes(parseInt(downloadData.size))
                              ELSE Empty]
    /\ UNCHANGED <<vCat, vVersion, vPlatform>>
    /\ UNCHANGED <<cmpVars, pageVars, wizVars, heroVars, logVars>>

----------------------------------------------------------------------------
(* Hero: the background-effects preference *)

\* JavaScript values the flag can hold: a boolean, null or a number.
JsValue(type, b, n) == [type |-> type, b |-> b, n |-> n]

JsBool(b) == JsValue("boolean", b, 0)

JsNull == JsValue("null", FALSE, 0)

JsNumber(n) == JsValue("number", FALSE, n)

\* !!v
ToBoolean(v) ==
    CASE v.type = "boolean" -> v.b
      [] v.type = "number" -> v.n # 0
      [] OTHER -> FALSE

TrueText == <<"t", "r", "u", "e">>

FalseText == <<"f", "a", "l", "s", "e">>

NullText == <<"n", "u", "l", "l">>

\* JSON.stringify(v)
JSONstringify(v) ==
    CASE v.type = "boolean" -> (IF v.b THEN TrueText ELSE FalseText)
      [] v.type = "number" -> numberToString(v.n)
      [] OTHER -> NullText

\* JSON.parse(text): ok is false where it throws a SyntaxError.
JSONparse(text) ==
    IF text = TrueText THEN [ok |-> TRUE, value |-> JsBool(TRUE)]
    ELSE IF text = FalseText THEN [ok |-> TRUE, value |-> JsBool(FALSE)]
    ELSE IF text = NullText THEN [ok |-> TRUE, value |-> JsNull]
    ELSE IF /\ text # <<>>
            /\ \A i \in 1..Len(text) : text[i] \in Digits
            /\ (Len(text) > 1 => text[1] # "0")
         THEN [ok |-> TRUE, value |-> JsNumber(digitsValue(text))]
    ELSE [ok |-> FALSE, value |-> JsNull]

\* localStorage.getItem of a key that holds nothing gives null.
NoItem == <<"no item">>

\* What localStorage can hold under 'pulse_bg_effects' when the page loads:
\* nothing (a first visit), or what toggleEffects wrote on an earlier visit.
StoredValues == {NoItem, TrueText, FalseText}

NoToggle == JsValue("none", FALSE, 0)

\* The flag and the stored item, as a toggle finds them.
Snapshot(flag, stored) == [flag |-> flag, stored |-> stored]

\* serverStats: null, or { activeServers: count }.
NoStats == [set |-> FALSE, activeServers |-> 0]

Stats(count) == [set |-> TRUE, activeServers |-> count]

\* The state useState gives the statistics at mount, with no request under way.
StatsInitial ==
    /\ serverStats = NoStats
    /\ heroIsLoading = TRUE
    /\ opacity = 0
    /\ statsPhase = "none"

ResetStats ==
    /\ serverStats' = NoStats
    /\ heroIsLoading' = TRUE
    /\ opacity' = 0
    /\ statsPhase' = "none"

\* What the bStats request can end with: fetch() rejects, a response that is
\* not ok, a body that is not JSON, or a body; kind says whether the body is
\* an array (arr: its [timestamp, count] entries) or something else.
StatsResponse(outcome, kind, arr) == [outcome |-> outcome, kind |-> kind, arr |-> arr]

MaxStats == 2

StatsEntries == {<<1, 0>>, <<2, 7>>, <<3, 1200>>}

StatsResponses ==
    { StatsResponse(o, "none", <<>>) : o \in {"neterr", "status", "badjson"} }
    \cup { StatsResponse("ok", "object", <<>>) }
    \cup { StatsResponse("ok", "array", a) :
             a \in UNION { [1..n -> StatsEntries] : n \in 0..MaxStats } }

\* The page is not loaded; nothing is stored.
HeroIdle ==
    /\ heroPhase = "unloaded"
    /\ showEffects = JsBool(FALSE)
    /\ storedEffects = NoItem
    /\ lastToggle = NoToggle
    /\ toggleLog = <<>>
    /\ StatsInitial

\* The page is not loaded; storage holds what an earlier visit left.
HeroUnloaded ==
    /\ heroPhase = "unloaded"
    /\ showEffects = JsBool(FALSE)
    /\ storedEffects \in StoredValues
    /\ lastToggle = NoToggle
    /\ toggleLog = <<>>
    /\ StatsInitial

\* Hero mounts: useState(false); the mount effect is pending.
HeroMount ==
    /\ heroPhase = "unloaded"
    /\ heroPhase' = "effect"
    /\ showEffects' = JsBool(FALSE)
    /\ toggleLog' = <<>>
    /\ ResetStats
    /\ UNCHANGED <<storedEffects, lastToggle>>
    /\ UNCHANGED <<cmpVars, pageVars, wizVars, viewVars, logVars>>

\* The mount effect ([] dependencies, so once per mount): the stored item is
\* parsed when there is one, otherwise effects are on unless the window is
\* narrower than 768 px; then fetchServerStats() starts with its 500 ms wait.
\* A stored item that is not JSON makes JSON.parse throw, and the effect ends
\* there, before fetchServerStats is called.
HeroEffect(innerWidth) ==
    /\ heroPhase = "effect"
    /\ LET savedSetting == storedEffects
       IN  IF savedSetting # NoItem
           THEN IF JSONparse(savedSetting).ok
                THEN /\ showEffects' = JSONparse(savedSetting).value
                     /\ heroPhase' = "ready"
                     /\ statsPhase' = "delay"
                ELSE /\ showEffects' = showEffects
                     /\ heroPhase' = "crashed"
                     /\ statsPhase' = statsPhase
           ELSE LET mobile == innerWidth < 768
                IN  /\ showEffects' = JsBool(~mobile)
                    /\ heroPhase' = "ready"
                    /\ statsPhase' = "delay"
    /\ UNCHANGED <<storedEffects, lastToggle, toggleLog>>
    /\ UNCHANGED <<serverStats, heroIsLoading, opacity>>
    /\ UNCHANGED <<cmpVars, pageVars, wizVars, viewVars, logVars>>

\* fetchServerStats after its 500 ms: the request is sent.
StatsDelayOver ==
    /\ heroPhase = "ready"
    /\ statsPhase = "delay"
    /\ statsPhase' = "fetching"
    /\ UNCHANGED <<serverStats, heroIsLoading, opacity>>
    /\ UNCHANGED prefVars
    /\ UNCHANGED <<cmpVars, pageVars, wizVars, viewVars, logVars>>

\* fetchServerStats with a catch block that sets no fallback.
StatsSettleNoFallback(resp) ==
    /\ heroPhase = "ready"
    /\ statsPhase = "fetching"
    /\ statsPhase' = "none"
    /\ serverStats' =
          IF resp.outcome = "ok" /\ resp.kind = "array" /\ Len(resp.arr) > 0
          THEN Stats(resp.arr[Len(resp.arr)][2])
          ELSE serverStats
    /\ opacity' = 1
    /\ heroIsLoading' = FALSE
    /\ UNCHANGED prefVars
    /\ UNCHANGED <<cmpVars, pageVars, wizVars, viewVars, logVars>>

\* fetchServerStats from the answer on: a non-empty array gives the count of
\* its last entry; everything else is thrown and caught, and the fallback of
\* 42 servers is shown; finally isLoading goes off.
StatsSettle(resp) ==
    /\ heroPhase = "ready"
    /\ statsPhase = "fetching"
    /\ statsPhase' = "none"
    /\ serverStats' =
          IF resp.outcome = "ok" /\ resp.kind = "array" /\ Len(resp.arr) > 0
          THEN Stats(resp.arr[Len(resp.arr)][2])
          ELSE Stats(42)
    /\ opacity' = 1
    /\ heroIsLoading' = FALSE
    /\ UNCHANGED prefVars
    /\ UNCHANGED <<cmpVars, pageVars, wizVars, viewVars, logVars>>

\* The number of toggles followed within one load of the page.
MaxToggles == 3

\* toggleEffects with the item written from the flag as it was.
toggleEffectsStoresOld ==
    /\ heroPhase = "ready"
    /\ Len(toggleLog) < MaxToggles
    /\ LET newValue == JsBool(~ToBoolean(showEffects))
       IN  /\ showEffects' = newValue
           /\ storedEffects' = JSONstringify(showEffects)
           /\ lastToggle' = newValue
    /\ toggleLog' = Append(toggleLog, Snapshot(showEffects, storedEffects))
    /\ heroPhase' = heroPhase
    /\ UNCHANGED statsVars
    /\ UNCHANGED <<cmpVars, pageVars, wizVars, viewVars, logVars>>

\* toggleEffects: newValue = !showEffects is set and written as JSON.
\* toggleLog keeps what each toggle since the load found, lastToggle what the
\* last one set.
toggleEffects ==
    /\ heroPhase = "ready"
    /\ Len(toggleLog) < MaxToggles
    /\ LET newValue == JsBool(~ToBoolean(showEffects))
       IN  /\ showEffects' = newValue
           /\ storedEffects' = JSONstringify(newValue)
           /\ lastToggle' = newValue
    /\ toggleLog' = Append(toggleLog, Snapshot(showEffects, storedEffects))
    /\ heroPhase' = heroPhase
    /\ UNCHANGED statsVars
    /\ UNCHANGED <<cmpVars, pageVars, wizVars, viewVars, logVars>>

\* The page is left or reloaded: the component's state is gone and what a
\* request still under way sets is lost with it; localStorage stays.
HeroUnload ==
    /\ heroPhase \in {"ready", "crashed"}
    /\ heroPhase' = "unloaded"
    /\ showEffects' = JsBool(FALSE)
    /\ toggleLog' = <<>>
    /\ ResetStats
    /\ UNCHANGED <<storedEffects, lastToggle>>
    /\ UNCHANGED <<cmpVars, pageVars, wizVars, viewVars, logVars>>

----------------------------------------------------------------------------
(* Specifications *)

\* The comparator harness applies both copies of compareVersions to a drawn
\* pair of version strings.
Compare ==
    /\ ~cmpOut.done
    /\ cmpOut' = [done |-> TRUE,
                  rel |-> compareVersions(cmpA, cmpB),
                  dev |-> devCompareVersions(cmpA, cmpB)]
    /\ UNCHANGED <<cmpA, cmpB, pageVars, wizVars, viewVars, heroVars, logVars>>

CmpIdle == cmpA = Empty /\ cmpB = Empty /\ cmpOut = NoResult

InitCmp ==
    /\ cmpA \in Versions
    /\ cmpB \in Versions
    /\ cmpOut = NoResult
    /\ PageIdle
    /\ WizMounted
    /\ ViewIdle
    /\ HeroIdle
    /\ LogIdle

NextCmp == Compare

SpecCmp == InitCmp /\ [][NextCmp]_vars

\* The platform names the filter harness calls handlePlatformFilter with:
\* two the catalogs carry and one they do not.
PlatformNames == {paper, PaperCap, fabric}

\* A browser page whose fetch has delivered a catalog, with the version filter
\* of the route and no platform filter yet.
PageLoaded ==
    /\ page \in Pages
    /\ releases \in Catalogs
    /\ routeVersion \in RouteVersions \cup {V20, V100}
    /\ routeBuild = Empty
    /\ effectsPending = "none"
    /\ loading = FALSE
    /\ error = NoError
    /\ selectedVersion = routeVersion
    /\ selectedPlatform = Empty
    /\ platform0 = Empty
    /\ calls = <<>>
    /\ inflight = <<>>
    /\ lastFetch = Response("envelope", "array", releases, NoObject)
    /\ overtaken = <<>>
    /\ lastSettled = NoneSettled

InitFilter == CmpIdle /\ PageLoaded /\ WizMounted /\ ViewIdle /\ HeroIdle /\ LogIdle

NextFilter ==
    \/ \E plat \in PlatformNames : handlePlatformFilter(plat)
    \/ clearPlatformFilter

SpecFilter == InitFilter /\ [][NextFilter]_vars

InitBrowser == CmpIdle /\ PageMounted /\ WizMounted /\ ViewIdle /\ HeroIdle /\ LogIdle

NextBrowser ==
    \/ RunEffects
    \/ \E v \in RouteVersions, b \in RouteBuilds : RouteChange(v, b)
    \/ \E ver \in Range(availableVersions(page, releases)) \cup {Empty} :
          handleVersionFilter(ver)
    \/ \E i \in 1..Len(inflight), resp \in BrowserResponses : FetchResolve(i, resp)
    \/ \E plat \in Range(availablePlatforms(releases)) : handlePlatformFilter(plat)
    \/ clearPlatformFilter

SpecBrowser == InitBrowser /\ [][NextBrowser]_vars

Init == CmpIdle /\ PageIdle /\ WizMounted /\ ViewIdle /\ HeroIdle /\ LogIdle

Next ==
    \/ Open
    \/ handleClose
    \/ \E version \in uniqueVersionSet(wReleases) : handleVersionSelect(version)
    \/ \E platformId \in Range(PLATFORMS_META) : clickPlatform(platformId)
    \/ backToVersion
    \/ changePlatform
    \/ handleDownloadClick
    \/ handleAnimationComplete
    \/ ResetTimerFires
    \/ \E resp \in WizResponses : WizFetchResolve(resp)

\* The download wizard.
Spec == Init /\ [][Next]_vars

\* The download wizard with its timers firing unless cleared and its requests
\* answered; what the user and the parent do is left open.
SpecTimers ==
    /\ Init
    /\ [][Next]_vars
    /\ WF_vars(handleAnimationComplete)
    /\ WF_vars(ResetTimerFires)
    /\ WF_vars(\E resp \in WizResponses : WizFetchResolve(resp))

\* The modal's render over every drawn catalog and selection.
InitView ==
    /\ CmpIdle /\ PageIdle /\ WizMounted /\ HeroIdle /\ LogIdle
    /\ vCat \in ViewCatalogs
    /\ vVersion \in ViewVersions
    /\ vPlatform \in Range(PLATFORMS_META)
    /\ vOut = NoView

NextView == Render

SpecView == InitView /\ [][NextView]_vars

\* Hero's preference over page loads, from whatever storage holds.  768 is the
\* width the mount effect compares with.
InitHero == CmpIdle /\ PageIdle /\ WizMounted /\ ViewIdle /\ HeroUnloaded /\ LogIdle

NextHero ==
    \/ HeroMount
    \/ \E innerWidth \in {767, 768} : HeroEffect(innerWidth)
    \/ toggleEffects
    \/ StatsDelayOver
    \/ \E resp \in StatsResponses : StatsSettle(resp)
    \/ HeroUnload

SpecHero == InitHero /\ [][NextHero]_vars

\* The releases page with a catalog delivered, and its changelog buttons.
InitChangelog ==
    /\ CmpIdle /\ PageLoaded /\ WizMounted /\ ViewIdle /\ HeroIdle /\ LogIdle
    /\ page = "releases"

NextChangelog == \E index \in 1..MaxCat : toggleChangelog(index)

SpecChangelog == InitChangelog /\ [][NextChangelog]_vars

----------------------------------------------------------------------------
(* Claims C1 - C2: the version comparator (checked under SpecCmp) *)

\* C1: compareVersions is a total order on version strings: comparing a
\* string with itself gives 0, swapping the arguments negates the result, and
\* a <= b and b <= c imply a <= c for every third string c; the dev-builds
\* copy of the comparator gives the same result as the releases copy.
C1_TotalOrder ==
    cmpOut.done =>
        /\ compareVersions(cmpA, cmpA) = 0
        /\ cmpOut.rel = 0 - compareVersions(cmpB, cmpA)
        /\ \A c \in Versions :
              (cmpOut.rel <= 0 /\ compareVersions(cmpB, c) <= 0)
                  => compareVersions(cmpA, c) <= 0
        /\ cmpOut.dev = cmpOut.rel

C1_Witness ==
    /\ cmpOut.done
    /\ cmpA = V_1_9_9
    /\ cmpB = V_1_10_0
    /\ cmpOut.rel = -1

\* The reference result of C2, written without the code's helpers.
RefDots(s) == { i \in 1..Len(s) : s[i] = "." }

RefSegCount(s) == Cardinality(RefDots(s)) + 1

\* The position of the k-th dot of s.
RefDot(s, k) ==
    CHOOSE d \in RefDots(s) : Cardinality({ e \in RefDots(s) : e <= d }) = k

RefSeg(s, k) ==
    SubSeq(s,
           IF k = 1 THEN 1 ELSE RefDot(s, k - 1) + 1,
           IF k = RefSegCount(s) THEN Len(s) ELSE RefDot(s, k) - 1)

RECURSIVE RefPow10(_)
RefPow10(n) == IF n = 0 THEN 1 ELSE 10 * RefPow10(n - 1)

RECURSIVE RefSum(_, _, _)
RefSum(body, n, j) ==
    IF j > n THEN 0
    ELSE DigitVal(body[j]) * RefPow10(n - j) + RefSum(body, n, j + 1)

\* A segment read as a base-10 integer: an optional sign and the leading
\* digits; a segment without leading digits reads as 0.
RefRead(seg) ==
    LET signed == seg # <<>> /\ seg[1] \in {"-", "+"}
        body == IF signed THEN SubSeq(seg, 2, Len(seg)) ELSE seg
        n == CHOOSE k \in 0..Len(body) :
                 /\ \A j \in 1..k : body[j] \in Digits
                 /\ (k = Len(body) \/ body[k + 1] \notin Digits)
        mag == RefSum(body, n, 1)
    IN  IF signed /\ seg[1] = "-" THEN 0 - mag ELSE mag

RefNum(s, k) == IF k <= RefSegCount(s) THEN RefRead(RefSeg(s, k)) ELSE 0

RefCompare(a, b) ==
    LET n == Max(RefSegCount(a), RefSegCount(b))
        differ == { k \in 1..n : RefNum(a, k) # RefNum(b, k) }
    IN  IF differ = {} THEN 0
        ELSE LET first == CHOOSE k \in differ : \A m \in differ : k <= m
             IN  IF RefNum(a, first) > RefNum(b, first) THEN 1 ELSE -1

\* C2: both copies of compareVersions return the sign of the first differing
\* segment, the segments read as base-10 integers, missing or unreadable ones
\* as 0; so "1.10.0" against "1.9.9" gives 1 and "2.0" against "2.0.0" gives 0.
C2_MatchesReference ==
    cmpOut.done =>
        /\ cmpOut.rel = RefCompare(cmpA, cmpB)
        /\ cmpOut.dev = RefCompare(cmpA, cmpB)
        /\ (cmpA = V_1_10_0 /\ cmpB = V_1_9_9) => cmpOut.rel = 1
        /\ (cmpA = V_2_0 /\ cmpB = V_2_0_0) => cmpOut.rel = 0

C2_Witness ==
    /\ cmpOut.done
    /\ cmpA = V_1_10_0
    /\ cmpB = V_1_9_9
    /\ cmpOut.rel = 1
    /\ cmpOut.dev = 1

----------------------------------------------------------------------------
(* Claims C3 - C5: the visible list and the platform toggle (SpecFilter) *)

pageCompare(a, b) ==
    IF page = "releases" THEN compareVersions(a, b) ELSE devCompareVersions(a, b)

ExampleCatalog ==
    <<Artifact(V10, paper, 5), Artifact(V10, paper, 3), Artifact(V20, paper, 1)>>

\* C3: the visible list is in descending version order and, among versions
\* that compare equal, in descending build_id order; the catalog
\* [{1.0,5},{1.0,3},{2.0,1}] without filters is shown as [{2.0,1},{1.0,5},{1.0,3}].
C3_VisibleSorted ==
    LET shown == visible
    IN  /\ \A i \in 1..(Len(shown) - 1) :
              LET diff == pageCompare(shown[i].version, shown[i + 1].version)
              IN  /\ diff >= 0
                  /\ diff = 0 => shown[i].build_id >= shown[i + 1].build_id
        /\ (/\ releases = ExampleCatalog
            /\ selectedVersion = Empty
            /\ selectedPlatform = Empty)
              => shown = <<Artifact(V20, paper, 1), Artifact(V10, paper, 5),
                           Artifact(V10, paper, 3)>>

C3_Witness ==
    /\ page = "releases"
    /\ releases = <<Artifact(V10, paper, 3), Artifact(V20, paper, 1),
                    Artifact(V10, paper, 5)>>
    /\ selectedVersion = Empty
    /\ selectedPlatform = paper
    /\ calls = <<paper>>
    /\ Len(visible) = 3

Count(xs, x) == Cardinality({ i \in 1..Len(xs) : xs[i] = x })

Kept(r) ==
    /\ (selectedVersion # Empty => r.version = selectedVersion)
    /\ (selectedPlatform # Empty => r.platform = selectedPlatform)

\* C4: the visible list holds exactly the catalog's artifacts that pass the
\* two exact-match filters, each as often as the catalog holds it; a selected
\* platform that no artifact carries gives an empty list.
C4_VisibleIsFiltered ==
    LET shown == visible
    IN  /\ \A r \in Range(releases) \cup Range(shown) :
              Count(shown, r) = (IF Kept(r) THEN Count(releases, r) ELSE 0)
        /\ (/\ selectedPlatform # Empty
            /\ \A i \in 1..Len(releases) : releases[i].platform # selectedPlatform)
              => shown = <<>>

C4_Witness ==
    /\ calls = <<paper, fabric>>
    /\ selectedPlatform = fabric
    /\ selectedVersion = V10
    /\ Len(releases) >= 2
    /\ \E i \in 1..Len(releases) : releases[i].version = V100
    /\ visible = <<>>

\* C5: a call handlePlatformFilter(p) clears the filter when p is the selected
\* platform and selects p otherwise; two consecutive calls with the same p
\* from no filter leave no filter, and the visible list is the one without a
\* platform filter.
C5_PlatformToggle ==
    /\ [][(calls' # calls /\ calls' # <<>>) =>
            selectedPlatform' =
               (IF selectedPlatform = calls'[Len(calls')] THEN Empty
                ELSE calls'[Len(calls')])]_vars
    /\ []((Len(calls) = 2 /\ calls[1] = calls[2] /\ platform0 = Empty) =>
            /\ selectedPlatform = Empty
            /\ visible = processed(page, releases, selectedVersion, Empty))

C5_Witness ==
    /\ Len(calls) = 2
    /\ calls[1] = calls[2]
    /\ platform0 = Empty
    /\ selectedPlatform = Empty
    /\ Len(visible) >= 2

----------------------------------------------------------------------------
(* Claims C6 - C7: normalisation of the response envelope (SpecBrowser) *)

\* C6: after a fetch that ended with a 2xx envelope whose data is null or
\* absent, the artifact list is empty and no error is set.
C6_NullDataGivesEmptyList ==
    (lastFetch.outcome = "envelope" /\ lastFetch.kind \in {"null", "absent"})
        => (releases = <<>> /\ error = NoError)

\* C7: after a fetch that ended with an envelope whose data is one artifact
\* object, the artifact list is that object alone.
C7_SingleObjectGivesOneElement ==
    (lastFetch.outcome = "envelope" /\ lastFetch.kind = "object")
        => releases = <<lastFetch.obj>>

----------------------------------------------------------------------------
(* Claims C8 - C10: the wizard's platform guard and its reset (Spec) *)

\* C8: a click on a platform without a matching artifact for the selected
\* version leaves step 2 and the selected platform as they are; the wizard
\* goes from step 2 to step 3 only with a platform of PLATFORMS_META that is
\* available at that moment.
C8_UnavailablePlatformInert ==
    /\ [][(/\ wLast'.op = "clickPlatform"
           /\ step = 2
           /\ ~isAvailable(wReleases, wSelectedVersion, wLast'.str))
            => (step' = 2 /\ wSelectedPlatform' = wSelectedPlatform)]_vars
    /\ [][(step = 2 /\ step' = 3) =>
            /\ wSelectedPlatform' \in Range(PLATFORMS_META)
            /\ isAvailable(wReleases, wSelectedVersion, wSelectedPlatform')]_vars

C8_Witness ==
    /\ wLast.op = "clickPlatform"
    /\ wLast.str = fabric
    /\ wLast.from = 2
    /\ step = 2
    /\ wSelectedVersion = V10
    /\ wReleases # <<>>

WizardReset ==
    /\ step = 1
    /\ wSelectedVersion = Empty
    /\ wSelectedPlatform = Empty
    /\ isDownloading = FALSE

\* C9: when the reset timer fires on the closed wizard, step is 1, both
\* selections are empty and isDownloading is false; the closed wizard then
\* stays so, and a reopen after that shows step 1 without a selection.
C9_ResetAfterDelay ==
    /\ [][(~isOpen /\ resetTimer /\ ~isOpen' /\ ~resetTimer') => WizardReset']_vars
    /\ []((~isOpen /\ ~resetTimer) => WizardReset)
    /\ [][(~isOpen /\ ~resetTimer /\ isOpen') =>
            (step' = 1 /\ wSelectedVersion' = Empty /\ wSelectedPlatform' = Empty)]_vars

C9_Witness ==
    /\ wLast.op = "resetTimer"
    /\ wLast.from = 3
    /\ ~isOpen
    /\ WizardReset

\* C10: every reopen of the wizard leaves it at step 1 without a selected
\* version or platform, however soon after the close it happens.
C10_ReopenResets ==
    [][(~isOpen /\ isOpen') =>
         (step' = 1 /\ wSelectedVersion' = Empty /\ wSelectedPlatform' = Empty)]_vars

----------------------------------------------------------------------------
(* Claims C11 - C13 and C16 - C20: the browser pages (SpecBrowser, SpecFilter) *)

\* C11: a step that starts a fetch sets loading to true and error to null; a
\* step that completes a fetch, on the success path or on any failure path,
\* sets loading to false; and when every started fetch has completed, loading
\* is false.
C11_LoadingCycle ==
    /\ [][(Len(inflight') > Len(inflight)) => (loading' /\ error' = NoError)]_vars
    /\ [][(Len(inflight') < Len(inflight)) => ~loading']_vars
    /\ []((inflight = <<>> /\ effectsPending = "none") => ~loading)

C11_Witness ==
    /\ lastFetch.outcome = "badjson"
    /\ inflight = <<>>
    /\ effectsPending = "none"
    /\ ~loading

\* C12: a step that completes a fetch with a failure (rejected fetch, non-2xx
\* status, rejected json(), or a rejection with a value that is not an Error)
\* leaves the artifact list empty and error set to a non-empty message; for a
\* non-2xx status the message contains the status text, for a non-Error value
\* it is the page's generic text.
C12_FailureClearsList ==
    [][(Len(inflight') < Len(inflight) /\ lastFetch'.outcome # "envelope") =>
         /\ releases' = <<>>
         /\ error'.set
         /\ error'.text # <<>>
         /\ lastFetch'.outcome = "status" =>
                \E k \in 1..Len(error'.text) : error'.text[k] = StatusText
         /\ lastFetch'.outcome = "nonerror" =>
                error'.text = <<IF page = "releases" THEN "Failed to load releases"
                                ELSE "Failed to load dev builds">>
         /\ lastFetch'.outcome \in {"neterr", "badjson"} =>
                error'.text \notin {<<"Failed to load releases">>,
                                    <<"Failed to load dev builds">>}]_vars

\* A non-2xx answer has completed a fetch of the dev-builds page: the list is
\* empty and the message carries the status text.
C12_Witness ==
    /\ lastFetch.outcome = "status"
    /\ releases = <<>>
    /\ error = ErrorMessage(<<"Failed to fetch dev builds: ", "Not Found">>)
    /\ page = "devbuilds"
    /\ ~loading

\* a comes before b in plain (code unit) string order.
RefBefore(a, b) ==
    \E k \in 1..(Len(a) + 1) :
        /\ k <= Len(b)
        /\ \A j \in 1..(k - 1) : a[j] = b[j]
        /\ k = Len(a) + 1 \/ charCode(a[k]) < charCode(b[k])

\* The position of the first artifact of the catalog with version v.
FirstAt(v) ==
    CHOOSE i \in 1..Len(releases) :
        releases[i].version = v /\ \A j \in 1..(i - 1) : releases[j].version # v

\* C13: availableVersions holds every version string of the catalog exactly
\* once, with compareVersions(earlier, later) >= 0 for every two positions and
\* versions that compare equal in the order of their first occurrence;
\* availablePlatforms holds every platform string of the catalog exactly once,
\* in strictly ascending code-unit order.  Both lists are thereby fixed by the
\* catalog alone, whatever the version and platform filters are.
C13_AvailableLists ==
    LET vs == availableVersions(page, releases)
        ps == availablePlatforms(releases)
    IN  /\ Range(vs) = { releases[i].version : i \in 1..Len(releases) }
        /\ \A i, j \in 1..Len(vs) :
              i < j => /\ vs[i] # vs[j]
                       /\ pageCompare(vs[i], vs[j]) >= 0
                       /\ pageCompare(vs[i], vs[j]) = 0 =>
                              FirstAt(vs[i]) < FirstAt(vs[j])
        /\ Range(ps) = { releases[i].platform : i \in 1..Len(releases) }
        /\ \A i, j \in 1..Len(ps) : i < j => RefBefore(ps[i], ps[j])

\* A catalog with a repeated version, three version strings and both
\* spellings of the platform, shown with a platform filter set.
C13_Witness ==
    /\ releases = <<Artifact(V10, paper, 5), Artifact(V100, PaperCap, 3),
                    Artifact(V20, paper, 1)>>
    /\ selectedPlatform = paper
    /\ Len(availableVersions(page, releases)) = 3
    /\ availableVersions(page, releases)[1] = V20
    /\ availablePlatforms(releases) = <<PaperCap, paper>>

\* The list a delivered response leaves in the page's state.
Produced(resp) ==
    IF resp.outcome # "envelope" THEN <<>>
    ELSE IF page = "releases" THEN releasesData(resp)
    ELSE buildsData(resp)

\* C16: starting a fetch leaves the outstanding requests outstanding; every
\* completion, of whichever outstanding request, puts the list produced by its
\* response into the state; so once nothing is outstanding the list is the one
\* produced by the response delivered last, also when that response belongs
\* to a request older than one answered before it.
C16_LastResolvedWins ==
    /\ [][(Len(inflight') > Len(inflight)) =>
            SubSeq(inflight', 1, Len(inflight)) = inflight]_vars
    /\ [][(Len(inflight') < Len(inflight)) => releases' = Produced(lastFetch')]_vars
    /\ []((inflight = <<>> /\ lastFetch # NoResponse) => releases = Produced(lastFetch))

\* Two requests overlapped, the older one was answered last, and its data is
\* in the list while the route asks for version 1.0.
C16_Witness ==
    /\ inflight = <<>>
    /\ effectsPending = "none"
    /\ lastSettled.late
    /\ lastSettled.stale
    /\ routeVersion = V10
    /\ lastFetch = Response("envelope", "array",
                            <<Artifact(V20, paper, 1), Artifact(V10, PaperCap, 3)>>,
                            NoObject)
    /\ releases = lastFetch.arr

\* C17: in every state of a browser page in which a started fetch has not yet
\* completed, loading is true.
C17_LoadingWhileOutstanding ==
    inflight # <<>> => loading

\* C18: a step that changes the platform filter (a platform button or 'All
\* Platforms') starts no fetch and leaves the artifact list, the loading
\* flag, the error, selectedVersion and the route as they were.
C18_PlatformFilterFrame ==
    [][(selectedPlatform' # selectedPlatform) =>
         /\ UNCHANGED <<inflight, effectsPending>>
         /\ UNCHANGED <<releases, loading, error, selectedVersion>>
         /\ UNCHANGED <<page, routeVersion, routeBuild>>]_vars

\* The platform filter was set and then cleared on a loaded page while another
\* request is outstanding, and the request is still the only one.
C18_Witness ==
    /\ calls = <<paper, paper>>
    /\ platform0 = Empty
    /\ selectedPlatform = Empty
    /\ releases = <<Artifact(V10, paper, 3)>>
    /\ Len(inflight) = 1
    /\ effectsPending = "none"

\* The value the query q gives the parameter name, or none.
ParamOf(q, name) ==
    IF \E k \in 1..Len(q) : q[k][1] = name
    THEN [present |-> TRUE, value |-> q[CHOOSE k \in 1..Len(q) : q[k][1] = name][2]]
    ELSE [present |-> FALSE, value |-> Empty]

\* C19: a change of the route's version or build number schedules the fetch
\* effect, and so does the mount; a scheduled effect starts exactly one
\* request and nothing else starts one; the request's query has the parameter
\* version exactly when the route version is non-empty and build_id exactly
\* when the route build number is non-empty, with the route's values, and no
\* other parameter (none at all when both are empty).
C19_OneFetchPerRouteChange ==
    /\ [][(<<routeVersion', routeBuild'>> # <<routeVersion, routeBuild>>) =>
            (effectsPending' # "none" /\ inflight' = inflight)]_vars
    /\ [][(effectsPending # "none" /\ effectsPending' # effectsPending) =>
            (effectsPending' = "none" /\ Len(inflight') = Len(inflight) + 1)]_vars
    /\ [][(Len(inflight') > Len(inflight)) =>
            /\ effectsPending # "none"
            /\ Len(inflight') = Len(inflight) + 1
            /\ LET q == inflight'[Len(inflight')]
                   v == ParamOf(q, "version")
                   b == ParamOf(q, "build_id")
               IN  /\ v.present <=> routeVersion # Empty
                   /\ v.present => v.value = routeVersion
                   /\ b.present <=> routeBuild # Empty
                   /\ b.present => b.value = routeBuild
                   /\ Len(q) = (IF v.present THEN 1 ELSE 0)
                                + (IF b.present THEN 1 ELSE 0)]_vars
    /\ [](effectsPending = "none" => (inflight # <<>> \/ lastFetch # NoResponse))

\* The route changed to version 1.0, build 3 while the request of the mount
\* was outstanding, and the effect has started the second request.
C19_Witness ==
    /\ routeVersion = V10
    /\ routeBuild = <<"3">>
    /\ effectsPending = "none"
    /\ inflight = << <<>>, << <<"version", V10>>, <<"build_id", <<"3">> >> >> >>
    /\ lastFetch = NoResponse

\* C20: a version button navigates to the page's path with that version (or
\* without one for ''), and a step that changes the route changes nothing
\* else of the page's state; once the effects of the route change have run,
\* selectedVersion is the route's version ('' when the route has none); the
\* route change and its effects leave selectedPlatform as it was.
C20_VersionFollowsRoute ==
    /\ [][(<<routeVersion', routeBuild'>> # <<routeVersion, routeBuild>>) =>
            /\ UNCHANGED <<page, releases, loading, error, inflight>>
            /\ UNCHANGED <<selectedVersion, selectedPlatform>>
            /\ \A ver \in Range(availableVersions(page, releases)) \cup {Empty} :
                  \/ /\ routeVersion' = (IF ver = Undefined THEN Empty ELSE ver)
                     /\ routeBuild' = Empty
                  \/ ~handleVersionFilter(ver)]_vars
    /\ [][(effectsPending # "none") => selectedPlatform' = selectedPlatform]_vars
    /\ [](effectsPending = "none" => selectedVersion = routeVersion)

\* The 2.0 button was used on a page filtered by platform: the route and
\* selectedVersion are 2.0 and the platform filter is still set.
C20_Witness ==
    /\ routeVersion = V20
    /\ routeBuild = Empty
    /\ effectsPending = "none"
    /\ selectedVersion = V20
    /\ selectedPlatform = paper

----------------------------------------------------------------------------
(* Claims C14 - C15: the wizard's download and confirmation (SpecTimers, Spec) *)

\* C14: the download action at step 3 sets isDownloading and leaves the wizard
\* open, and every download action is eventually followed by a state in which
\* the wizard is closed, at step 1, without a selection and not downloading.
C14_DownloadEndsReset ==
    /\ [][(wLast'.op = "handleDownloadClick" /\ wLast # wLast') =>
            (isDownloading' /\ isOpen')]_vars
    /\ (wLast.op = "handleDownloadClick") ~> (~isOpen /\ WizardReset)

\* C15: whenever the open wizard shows step 3 (not loading, no error), the
\* lookup getDownloadData finds an artifact for the selected version and
\* platform in the wizard's current catalog.
C15_ConfirmationHasData ==
    (isOpen /\ step = 3 /\ ~isLoading /\ ~wError) =>
        getDownloadData(wReleases, wSelectedVersion, wSelectedPlatform).found

----------------------------------------------------------------------------
(* Claims C22, C24, C25: the wizard's failure handling, back buttons and
   close control (Spec) *)

\* C22: a step that completes a wizard fetch with a failure leaves the
\* wizard's artifact list empty and the error flag set.
C22_WizardFailureClearsList ==
    [][(wInflight' < wInflight /\ wLast'.resp.outcome # "envelope") =>
         (wReleases' = <<>> /\ wError')]_vars

\* C24: every change of step other than the reset timer's is one of 1->2 (a
\* version button), 2->3 (a button of a platform that is available), 2->1
\* ('back to version selection') and 3->2 ('change platform'); the two back
\* steps leave selectedVersion, selectedPlatform, the catalog and
\* isDownloading as they were.
C24_BackChangesOnlyStep ==
    [][(step' # step /\ wLast'.op # "resetTimer") =>
         /\ <<step, step'>> \in {<<1, 2>>, <<2, 3>>, <<2, 1>>, <<3, 2>>}
         /\ <<step, step'>> = <<1, 2>> => wLast'.op = "handleVersionSelect"
         /\ <<step, step'>> = <<2, 3>> =>
                /\ wLast'.op = "clickPlatform"
                /\ isAvailable(wReleases, wSelectedVersion, wSelectedPlatform')
         /\ <<step, step'>> = <<2, 1>> =>
                /\ wLast'.op = "backToVersion"
                /\ UNCHANGED <<wSelectedVersion, wSelectedPlatform, wReleases,
                               isDownloading>>
         /\ <<step, step'>> = <<3, 2>> =>
                /\ wLast'.op = "changePlatform"
                /\ UNCHANGED <<wSelectedVersion, wSelectedPlatform, wReleases,
                               isDownloading>>]_vars

\* From step 3 the user went back to step 2 and on to step 1: version and
\* platform are still the ones chosen before.
C24_Witness ==
    /\ wLast.op = "backToVersion"
    /\ step = 1
    /\ wSelectedVersion = V10
    /\ wSelectedPlatform = paper
    /\ isOpen

\* C25: while isDownloading is true, handleClose changes nothing of the
\* wizard's state (isOpen included), and the only step that closes the open
\* wizard is the completion of the exit animation.
C25_NoCloseWhileDownloading ==
    /\ [][(isDownloading /\ wLast'.op = "handleClose") =>
            /\ UNCHANGED <<isOpen, step, wSelectedVersion, wSelectedPlatform>>
            /\ UNCHANGED <<wReleases, isLoading, wError, isDownloading>>
            /\ UNCHANGED <<resetTimer, animTimer, wInflight>>]_vars
    /\ [][(isDownloading /\ isOpen /\ ~isOpen') =>
            wLast'.op = "handleAnimationComplete"]_vars

\* The close control was used during the exit animation: the wizard is still
\* open and downloading, with the animation's timer armed.
C25_Witness ==
    /\ wLast.op = "handleClose"
    /\ wLast.from = 3
    /\ isDownloading
    /\ isOpen
    /\ animTimer

----------------------------------------------------------------------------
(* Claims C27, C29, C30: what the browser pages show (SpecBrowser) *)

\* C27: when the empty state is shown after a successful fetch, its hint is
\* the 'check back later' text exactly when neither a version filter nor a
\* platform filter is active, and a text about the filters otherwise.
C27_EmptyHintTellsFilters ==
    (/\ lastFetch.outcome = "envelope"
     /\ inflight = <<>>
     /\ effectsPending = "none"
     /\ emptyStateShown(loading, error, visible))
        => LET hint == emptyHint(page, selectedVersion, selectedPlatform)
               later == hint \in {"Check back later for new releases",
                                  "Check back later for new development builds"}
           IN  later <=> (~Truthy(selectedVersion) /\ ~Truthy(selectedPlatform))

\* C29: in every state of a browser page in which error is set, the artifact
\* list is empty.
C29_ErrorMeansEmptyList ==
    error.set => releases = <<>>

\* C30: in every state of a browser page in which loading is true, error is
\* null.
C30_LoadingMeansNoError ==
    loading => error = NoError

\* A fetch failed, and the fetch started after that is outstanding: loading
\* is shown without the error of the failure.
C30_Witness ==
    /\ lastFetch.outcome = "status"
    /\ lastSettled = NoneSettled
    /\ Len(inflight) = 1
    /\ loading
    /\ error = NoError

----------------------------------------------------------------------------
(* Claims C21, C23, C26: what the wizard derives from its catalog (SpecView) *)

\* The indices of the artifacts of the drawn catalog that match the drawn
\* selection: same version, same platform up to case.
MatchingIndices ==
    { i \in 1..Len(vCat) :
        /\ vCat[i].version = vVersion
        /\ toLowerCase(vCat[i].platform) = toLowerCase(vPlatform) }

\* The artifact the step-3 view is about: the first one matching the selection.
ShownArtifact == vCat[CHOOSE i \in MatchingIndices : \A j \in MatchingIndices : i <= j]

\* A size field that is absent, empty or not a number.
InvalidSize(field) == field = Undefined \/ field = Empty \/ parseInt(field).nan

\* C21: at step 3 an artifact whose size is absent, empty or non-numeric under
\* both field names (size and file_size) is never presented as zero: neither
\* the descriptor's size nor the displayed size string is the one an artifact
\* of 0 bytes gets.
C21_InvalidSizeNotZero ==
    (/\ vOut.done
     /\ vOut.data.found
     /\ InvalidSize(ShownArtifact.size)
     /\ InvalidSize(ShownArtifact.file_size))
    => /\ vOut.data.size # <<"0">>
       /\ vOut.shown # <<"0", " ", "B", "y", "t", "e", "s">>

\* C23: the wizard's uniqueVersions holds the distinct version strings of the
\* catalog in the order that sorting descending by compareVersions produces:
\* whenever compareVersions does not rank two of them equal, the greater one
\* comes first.
C23_VersionsOrderedAsBrowsers ==
    vOut.done =>
        /\ Range(vOut.versions) = { vCat[i].version : i \in 1..Len(vCat) }
        /\ \A i, j \in 1..Len(vOut.versions) :
              i < j =>
                /\ vOut.versions[i] # vOut.versions[j]
                /\ compareVersions(vOut.versions[i], vOut.versions[j]) >= 0

\* The catalog in every order of its artifacts.
Reorderings(cat) ==
    { [i \in 1..Len(cat) |-> cat[f[i]]] :
        f \in { g \in [1..Len(cat) -> 1..Len(cat)] :
                  \A a, b \in 1..Len(cat) : g[a] = g[b] => a = b } }

\* C26: at step 3 the descriptor's link is the API root, the download path and
\* the build_id of an artifact of the catalog matching the selection (version
\* equal, platform equal up to case); that artifact is the only one matching,
\* so the link is the same for every order of the catalog.
C26_LinkOfTheUniqueMatch ==
    (vOut.done /\ vOut.data.found) =>
        /\ \E i \in MatchingIndices :
              vOut.data.link = <<"h", "t", "t", "p", "s", ":", "/", "/", "a", "p", "i", ".", "p", "u", "l", "s", "e", "m", "c", ".", "d", "e", "v", "/", "r", "e", "l", "e", "a", "s", "e", "/", "d", "o", "w", "n", "l", "o", "a", "d", "/">>
                               \o numberToString(vCat[i].build_id)
        /\ Cardinality({ vCat[i] : i \in MatchingIndices }) = 1
        /\ \A cat \in Reorderings(vCat) :
              getDownloadData(cat, vVersion, vPlatform).link = vOut.data.link

----------------------------------------------------------------------------
(* Claim C28: the background-effects preference (SpecHero) *)

\* What the toggle before the last one found.
BeforeTwoToggles == toggleLog[Len(toggleLog) - 1]

\* A step of toggleEffects.
ToggleStep == heroPhase = "ready" /\ heroPhase' = "ready" /\ toggleLog' # toggleLog

\* The mount effect's step on a load after some toggle.
RestartStep == heroPhase = "effect" /\ heroPhase' # "effect" /\ lastToggle # NoToggle

\* After at least one toggle the stored item is the JSON boolean of the flag.
StoredIsFlag ==
    toggleLog # <<>> =>
        /\ showEffects.type = "boolean"
        /\ storedEffects = (IF showEffects.b THEN <<"t", "r", "u", "e">>
                            ELSE <<"f", "a", "l", "s", "e">>)

\* Each toggle negates the flag.
ToggleNegates == ToggleStep => showEffects' = JsBool(~ToBoolean(showEffects))

\* A restart reads the stored item and yields the flag of the last toggle.
RestartYieldsLastToggle ==
    RestartStep => (heroPhase' = "ready" /\ showEffects' = lastToggle)

\* C28 as stated: the preference is read once at startup and written on every
\* toggle; after at least one toggle the stored item is the JSON boolean equal
\* to showEffects; each toggle negates the flag, and two consecutive toggles
\* restore both the flag and the stored item; a restart yields the flag of the
\* last toggle.
C28_AsStated ==
    /\ [](StoredIsFlag)
    /\ [](Len(toggleLog) >= 2 =>
            /\ showEffects = BeforeTwoToggles.flag
            /\ storedEffects = BeforeTwoToggles.stored)
    /\ [][ToggleNegates /\ RestartYieldsLastToggle]_vars

\* C28, amended: as stated, except that two consecutive toggles restore the
\* flag when it was a boolean, and the stored item when, in addition, it was
\* the JSON text of that boolean (as it is after any toggle): on a first
\* visit nothing is stored before the toggles and 'true' or 'false' after.
C28_PreferencePersisted ==
    /\ [](StoredIsFlag)
    /\ []((Len(toggleLog) >= 2 /\ BeforeTwoToggles.flag.type = "boolean") =>
            /\ showEffects = BeforeTwoToggles.flag
            /\ (BeforeTwoToggles.stored = JSONstringify(BeforeTwoToggles.flag)
                   => storedEffects = BeforeTwoToggles.stored))
    /\ [][ToggleNegates /\ RestartYieldsLastToggle]_vars

\* A reload after two toggles that found the flag stored: the flag is again
\* what the last toggle set.
C28_Witness ==
    /\ heroPhase = "ready"
    /\ toggleLog = <<>>
    /\ lastToggle = JsBool(FALSE)
    /\ showEffects = lastToggle
    /\ storedEffects = FalseText

----------------------------------------------------------------------------
(* Claims C31 - C32: the filters against a replaced catalog (SpecBrowser) *)

\* C31: whenever the route carries a version and the route-sync effect has
\* run, every artifact of the visible list has exactly that version, also when
\* a stale response of an earlier fetch resolved last and replaced the catalog.
C31_VisibleHasRouteVersion ==
    (Truthy(routeVersion) /\ effectsPending = "none") =>
        \A i \in 1..Len(visible) : visible[i].version = routeVersion

\* The response of a fetch made for another route resolved last and left a
\* catalog with an artifact of another version; the route carries a version.
C31_Witness ==
    /\ Truthy(routeVersion)
    /\ effectsPending = "none"
    /\ inflight = <<>>
    /\ lastSettled.stale
    /\ \E i \in 1..Len(releases) : releases[i].version # routeVersion
    /\ Len(visible) > 0

\* C32: the active platform filter always refers to an offered platform: in
\* every state with loading = false, selectedPlatform is '' or a member of
\* availablePlatforms of the current catalog, also after a route change has
\* replaced the catalog while a platform was selected.  A filter the code
\* treats as not set (a falsy selectedPlatform) counts as ''.
C32_PlatformFilterIsOffered ==
    ~loading =>
        \/ ~Truthy(selectedPlatform)
        \/ selectedPlatform \in Range(availablePlatforms(releases))

----------------------------------------------------------------------------
(* Claim C33: the changelog toggles (SpecChangelog) *)

\* build_id is unique within each (version, platform) combination of the
\* catalog.
UniqueWithinCombination ==
    \A i, j \in 1..Len(releases) :
        (/\ i # j
         /\ releases[i].version = releases[j].version
         /\ releases[i].platform = releases[j].platform)
        => releases[i].build_id # releases[j].build_id

LastClick == changelogClicks[Len(changelogClicks)]

\* C33: for catalogs in which build_id is unique only within each (version,
\* platform) combination, toggling the changelog of one displayed artifact
\* changes the expanded state of that artifact and of no other displayed one,
\* and toggling it again restores the state of every displayed artifact.
C33_ToggleChangesOneArtifact ==
    UniqueWithinCombination =>
        /\ changelogClicks # <<>> =>
              \A j \in 1..Len(visible) :
                  (isExpanded(visible[j], expandedReleases)
                     # isExpanded(visible[j], LastClick.before))
                  <=> j = LastClick.index
        /\ (Len(changelogClicks) >= 2
              /\ LastClick.index = changelogClicks[Len(changelogClicks) - 1].index) =>
              \A j \in 1..Len(visible) :
                  isExpanded(visible[j], expandedReleases)
                    = isExpanded(visible[j],
                                 changelogClicks[Len(changelogClicks) - 1].before)

----------------------------------------------------------------------------
(* Claim C34: the wizard's selection (Spec) *)

\* C34: over any sequence of open, close, reset, select and back actions, for
\* catalogs whose version strings are non-empty: step is 1, 2 or 3; step >= 2
\* implies a selected version other than ''; step = 3 implies a selected
\* platform that is one of the PLATFORMS_META ids.
C34_SelectionInvariant ==
    /\ step \in {1, 2, 3}
    /\ step >= 2 => wSelectedVersion # Empty
    /\ step = 3 => \E i \in 1..Len(PLATFORMS_META) : wSelectedPlatform = PLATFORMS_META[i]

\* The wizard was closed at step 3 and opened again before the reset timer
\* fired: it is open at step 3 with the selection it had.
C34_Witness ==
    /\ isOpen
    /\ step = 3
    /\ wLast.op = "open"
    /\ wSelectedVersion # Empty
    /\ wSelectedPlatform = paper

----------------------------------------------------------------------------
(* Claim C35: the server statistics of the landing page (SpecHero) *)

\* A response counts as a success when it is ok and its body is a non-empty
\* array.
StatsSuccess(resp) == resp.outcome = "ok" /\ resp.kind = "array" /\ resp.arr # <<>>

\* C35: the server-stats fetch always settles into a displayable state: on
\* every outcome isLoading becomes false and serverStats is non-null, holding
\* the count of the last array entry on success and 42 on every failure; the
\* 'N/A' branch (isLoading false with serverStats null) is unreachable.
C35_StatsSettleDisplayable ==
    /\ [](heroIsLoading \/ serverStats.set)
    /\ [][(statsPhase = "fetching" /\ statsPhase' = "none" /\ heroPhase' = "ready") =>
            /\ ~heroIsLoading'
            /\ serverStats'.set
            /\ \A resp \in StatsResponses :
                  \/ ~StatsSettle(resp)
                  \/ serverStats'.activeServers =
                        (IF StatsSuccess(resp) THEN resp.arr[Len(resp.arr)][2] ELSE 42)]_vars

\* A request that failed has settled: the fallback of 42 servers is shown.
C35_Witness ==
    /\ heroPhase = "ready"
    /\ statsPhase = "none"
    /\ ~heroIsLoading
    /\ serverStats = Stats(42)
    /\ opacity = 1

====
